---- MODULE Spec2Model ----
(***************************************************************************)
(* SLIP-10 Ed25519 hierarchical key derivation of the web3-wallet          *)
(* repository: src/ed25519Slip10.ts and its near-duplicate                 *)
(* src/ed25519Slip10.js, together with the two wallet components of       *)
(* src/App.tsx (lines 28 and 412), which derive accounts with it and read  *)
(* their balances.                                                         *)
(* Spec follows one call of derivePath, SpecCalls a sequence of calls,     *)
(* SpecWallet the handlers and pending requests of the component.          *)
(*                                                                         *)
(* Representation choices.                                                 *)
(*  - A JavaScript string is a sequence of one-character strings.          *)
(*  - A JavaScript Number holding an integer is a record                   *)
(*    [nan, inf, neg, top, hi, lo] of value                                *)
(*    (-1)^neg * (T * 2^32 + hi * 2^16 + lo), with hi, lo < 2^16 and T     *)
(*    written in base 2^16 by the sequence top: TLC integers are 32-bit    *)
(*    signed, the indices are not.  Values of 2^53 and more are rounded    *)
(*    to 53 significant bits as IEEE 754 doubles are.                      *)
(*  - A Uint8Array is a sequence of chunks: [lit |-> <<b1, ..., bn>>] is   *)
(*    n known bytes, [dig |-> d, lo |-> a, hi |-> b] is bytes [a, b) of    *)
(*    the digest d.  Arrays are kept normalised (no empty chunk, adjacent  *)
(*    chunks merged), so equal byte strings are equal values.              *)
(*  - HMAC-SHA512 (@noble/hashes) is an uninterpreted injective function   *)
(*    of its message-role argument and of the key it works with (the key   *)
(*    argument, hashed when longer than a block, padded with zeros): its   *)
(*    digest is the record [hash, key, msg].                               *)
(*  - The promises and timers of the component that have not settled are   *)
(*    a bag of tasks; any of them may settle next.                         *)
(***************************************************************************)
EXTENDS Integers, Sequences, FiniteSets, Bags, TLC

\* ------------------------------------------------------------------------
\* Bounds of the model
\* ------------------------------------------------------------------------
\* most segments after the first one in an enumerated path
MaxDepth == 2
\* largest account index handed to deriveAccount
MaxAcct == 11
\* most derivePath calls in one behaviour of SpecCalls
MaxCalls == 3

\* ------------------------------------------------------------------------
\* Notation
\* ------------------------------------------------------------------------
\* const x = v followed by the statements In that read x: the value is
\* computed where it is declared, once
With(v, In(_)) == In(v)

\* ------------------------------------------------------------------------
\* JavaScript Numbers (integers only) and the 32-bit operators
\* ------------------------------------------------------------------------
\* the base of the two limbs of a Number
W16 == 256 * 256

NaN ==
  [nan |-> TRUE, inf |-> FALSE, neg |-> FALSE, top |-> <<>>, hi |-> 0,
   lo |-> 0]

\* Infinity and -Infinity; ToUint32 and ToInt32 send them to 0
Infinity(neg) ==
  [nan |-> FALSE, inf |-> TRUE, neg |-> neg, top |-> <<>>, hi |-> 0,
   lo |-> 0]

\* an integer of magnitude T * 2^32 + hi * 2^16 + lo, where top holds the
\* base-2^16 limbs of T, least significant first, without a zero at the end
NumT(neg, top, hi, lo) ==
  [nan |-> FALSE, inf |-> FALSE, neg |-> neg, top |-> top, hi |-> hi,
   lo |-> lo]

\* an integer of magnitude below 2^32
Num(neg, hi, lo) == NumT(neg, <<>>, hi, lo)

\* a small non-negative integer as a Number
Small(n) == Num(FALSE, n \div W16, n % W16)

\* Number.isNaN
IsNaN(x) == x.nan

\* ToUint32: the value modulo 2^32, as a non-negative Number (NaN -> 0)
ToUint32(x) ==
  IF x.nan THEN Num(FALSE, 0, 0)
  ELSE LET h == x.hi % W16
           l == x.lo
       IN  IF ~x.neg THEN Num(FALSE, h, l)
           ELSE IF l = 0 THEN Num(FALSE, (W16 - h) % W16, 0)
           ELSE Num(FALSE, W16 - 1 - h, W16 - l)

\* ToInt32: the value modulo 2^32, read as a two's complement int32
ToInt32(x) ==
  LET u == ToUint32(x)
  IN  IF u.hi < 32768 THEN u
      ELSE IF u.lo = 0 THEN Num(TRUE, W16 - u.hi, 0)
      ELSE Num(TRUE, W16 - 1 - u.hi, W16 - u.lo)

RECURSIVE Or16(_, _, _)
Or16(a, b, bits) ==
  IF bits = 0 THEN 0
  ELSE (IF a % 2 = 1 \/ b % 2 = 1 THEN 1 ELSE 0)
       + 2 * Or16(a \div 2, b \div 2, bits - 1)

RECURSIVE And16(_, _, _)
And16(a, b, bits) ==
  IF bits = 0 THEN 0
  ELSE (IF a % 2 = 1 /\ b % 2 = 1 THEN 1 ELSE 0)
       + 2 * And16(a \div 2, b \div 2, bits - 1)

\* x | y : both operands ToInt32, the result is an int32
BitOr(x, y) ==
  LET a == ToUint32(x)
      b == ToUint32(y)
  IN  ToInt32(Num(FALSE, Or16(a.hi, b.hi, 16), Or16(a.lo, b.lo, 16)))

\* x & y : both operands ToInt32, the result is an int32
BitAnd(x, y) ==
  LET a == ToUint32(x)
      b == ToUint32(y)
  IN  ToInt32(Num(FALSE, And16(a.hi, b.hi, 16), And16(a.lo, b.lo, 16)))

RECURSIVE Pow2(_)
Pow2(k) == IF k = 0 THEN 1 ELSE 2 * Pow2(k - 1)

\* x >>> k : ToUint32(x) shifted right by k (0 <= k < 32), a uint32
UnsignedShiftRight(x, k) ==
  LET u == ToUint32(x)
  IN  IF k >= 16 THEN Num(FALSE, 0, u.hi \div Pow2(k - 16))
      ELSE Num(FALSE, u.hi \div Pow2(k),
               (u.lo \div Pow2(k)) + (u.hi % Pow2(k)) * Pow2(16 - k))

\* ------------------------------------------------------------------------
\* Natural numbers of any size, for the values a double can hold: base-2^16
\* limbs, least significant first, no zero limb at the end (<<>> is 0)
\* ------------------------------------------------------------------------
\* The operators on limbs split the sequence in two halves rather than walk
\* along it, which keeps the evaluation shallow for numbers of a thousand
\* bits.
BNorm(b) ==
  IF \A j \in 1..Len(b) : b[j] = 0 THEN <<>>
  ELSE SubSeq(b, 1, CHOOSE n \in 1..Len(b) :
                      b[n] # 0 /\ \A j \in (n + 1)..Len(b) : b[j] = 0)

\* limbs from..to of b * m + c and the carry out of them
RECURSIVE MulRange(_, _, _, _, _)
MulRange(b, m, c, from, to) ==
  IF from > to THEN [out |-> <<>>, carry |-> c]
  ELSE IF from = to
       THEN [out |-> <<(b[from] * m + c) % W16>>,
             carry |-> (b[from] * m + c) \div W16]
  ELSE LET mid == (from + to) \div 2
           l == MulRange(b, m, c, from, mid)
           r == MulRange(b, m, l.carry, mid + 1, to)
       IN  [out |-> l.out \o r.out, carry |-> r.carry]

\* b * m + c for 1 <= m <= 2^15 and 0 <= c < 2^16
BMulAdd(b, m, c) ==
  LET r == MulRange(b, m, c, 1, Len(b))
  IN  r.out \o (IF r.carry = 0 THEN <<>> ELSE <<r.carry>>)

\* limbs from..to of the quotient of b by d, the most significant first as
\* the division produces them, given the remainder rem left by the limbs
\* above, and the remainder they leave
RECURSIVE DivRange(_, _, _, _, _)
DivRange(b, d, rem, from, to) ==
  IF from > to THEN [out |-> <<>>, rem |-> rem]
  ELSE IF from = to
       THEN [out |-> <<(rem * W16 + b[from]) \div d>>,
             rem |-> (rem * W16 + b[from]) % d]
  ELSE LET mid == (from + to) \div 2
           u == DivRange(b, d, rem, mid + 1, to)
           l == DivRange(b, d, u.rem, from, mid)
       IN  [out |-> u.out \o l.out, rem |-> l.rem]

\* quotient q and remainder r of b by d, 1 <= d <= 2^15
BDivMod(b, d) ==
  LET r == DivRange(b, d, 0, 1, Len(b))
  IN  [q |-> BNorm([j \in 1..Len(b) |-> r.out[Len(b) + 1 - j]]),
       r |-> r.rem]

\* -1, 0 or 1 as a < b, a = b or a > b
BCmp(a, b) ==
  IF Len(a) # Len(b) THEN (IF Len(a) < Len(b) THEN -1 ELSE 1)
  ELSE IF a = b THEN 0
  ELSE LET n == CHOOSE n \in 1..Len(a) :
                  a[n] # b[n] /\ \A j \in (n + 1)..Len(a) : a[j] = b[j]
       IN  IF a[n] < b[n] THEN -1 ELSE 1

\* limb j of b, 0 beyond its end
Limb(b, j) == IF j <= Len(b) THEN b[j] ELSE 0

\* limbs from..to of a - b - borrow and the borrow out of them
RECURSIVE SubRange(_, _, _, _, _)
SubRange(a, b, borrow, from, to) ==
  IF from > to THEN [out |-> <<>>, borrow |-> borrow]
  ELSE IF from = to
       THEN [out |-> <<(a[from] - Limb(b, from) - borrow + W16) % W16>>,
             borrow |-> IF a[from] - Limb(b, from) - borrow < 0 THEN 1 ELSE 0]
  ELSE LET mid == (from + to) \div 2
           l == SubRange(a, b, borrow, from, mid)
           r == SubRange(a, b, l.borrow, mid + 1, to)
       IN  [out |-> l.out \o r.out, borrow |-> r.borrow]

\* a - b for a >= b
BSub(a, b) == BNorm(SubRange(a, b, 0, 1, Len(a)).out)

RECURSIVE BitLen16(_)
BitLen16(x) == IF x = 0 THEN 0 ELSE 1 + BitLen16(x \div 2)

\* the number of bits of b
BBitLen(b) ==
  IF b = <<>> THEN 0 ELSE 16 * (Len(b) - 1) + BitLen16(b[Len(b)])

\* bit k of b, bit 0 the least significant
BBit(b, k) == (Limb(b, (k \div 16) + 1) \div Pow2(k % 16)) % 2

\* is some bit of b below bit k set
BAnyBelow(b, k) ==
  \E j \in 1..Len(b) :
    \/ 16 * j <= k /\ b[j] # 0
    \/ 16 * (j - 1) < k /\ k < 16 * j /\ b[j] % Pow2(k % 16) # 0

\* b with the bits below bit k cleared (not normalised)
BClearBelow(b, k) ==
  [j \in 1..Len(b) |->
     IF 16 * j <= k THEN 0
     ELSE IF 16 * (j - 1) < k
          THEN (b[j] \div Pow2(k % 16)) * Pow2(k % 16)
          ELSE b[j]]

\* n zeros
Zeros(n) == [j \in 1..n |-> 0]

\* b + 2^k: the limbs below bit k stay, the limb of bit k takes 2^(k % 16),
\* and the carry runs up as far as the limbs are full
BAddPow2(b, k) ==
  LET at == (k \div 16) + 1
      wide == b \o Zeros(IF at >= Len(b) THEN at + 1 - Len(b) ELSE 1)
      carries == wide[at] + Pow2(k % 16) >= W16
      \* the first limb above at that can take the carry
      stop == CHOOSE n \in (at + 1)..Len(wide) :
                /\ wide[n] # W16 - 1
                /\ \A j \in (at + 1)..(n - 1) : wide[j] = W16 - 1
  IN  BNorm([j \in 1..Len(wide) |->
               IF j < at THEN wide[j]
               ELSE IF j = at THEN (wide[at] + Pow2(k % 16)) % W16
               ELSE IF ~carries THEN wide[j]
               ELSE IF j < stop THEN 0
               ELSE IF j = stop THEN wide[j] + 1
               ELSE wide[j]])

\* b * 2^k
BShiftLeft(b, k) ==
  IF b = <<>> THEN <<>>
  ELSE Zeros(k \div 16) \o BMulAdd(b, Pow2(k % 16), 0)

\* floor(b / 2^k)
BShiftRight(b, k) ==
  IF k \div 16 >= Len(b) THEN <<>>
  ELSE BDivMod(SubSeq(b, (k \div 16) + 1, Len(b)), Pow2(k % 16)).q

\* b * 10^k
RECURSIVE BMulPow10(_, _)
BMulPow10(b, k) ==
  IF k <= 0 \/ b = <<>> THEN b
  ELSE IF k >= 16
       THEN BMulPow10(BMulAdd(BMulAdd(BMulAdd(BMulAdd(b, 10000, 0),
                                              10000, 0), 10000, 0),
                              10000, 0), k - 16)
  ELSE IF k >= 4 THEN BMulPow10(BMulAdd(b, 10000, 0), k - 4)
  ELSE BMulPow10(BMulAdd(b, 10, 0), k - 1)

Digits == <<"0", "1", "2", "3", "4", "5", "6", "7", "8", "9">>

\* the decimal digits of b, four for each division by 10^4
FourDigits(r) ==
  <<Digits[(r \div 1000) + 1], Digits[((r \div 100) % 10) + 1],
    Digits[((r \div 10) % 10) + 1], Digits[(r % 10) + 1]>>

\* the last n groups of four decimal digits of b, fewer when b has fewer,
\* and b without them
RECURSIVE LastGroups(_, _)
LastGroups(b, n) ==
  IF n = 0 \/ b = <<>> THEN [q |-> b, digits |-> <<>>]
  ELSE With(BDivMod(b, 10000), LAMBDA d :
       With(LastGroups(d.q, n - 1), LAMBDA g :
         [q |-> g.q, digits |-> g.digits \o FourDigits(d.r)]))

\* all of them, sixteen groups at a time
RECURSIVE GroupsOfFour(_)
GroupsOfFour(b) ==
  IF b = <<>> THEN <<>>
  ELSE With(LastGroups(b, 16), LAMBDA g : GroupsOfFour(g.q) \o g.digits)

\* the decimal digits of b, most significant first ("0" for 0)
BigToDecimal(b) ==
  With(GroupsOfFour(b), LAMBDA d :
    IF \A j \in 1..Len(d) : d[j] = "0" THEN <<"0">>
    ELSE SubSeq(d, CHOOSE j \in 1..Len(d) :
                     d[j] # "0" /\ \A h \in 1..(j - 1) : d[h] = "0",
                Len(d)))

\* the double nearest to b + f, where sticky says whether the fraction f,
\* 0 <= f < 1, is not 0 and b has more than 53 bits or sticky is FALSE:
\* round to 53 bits, ties to the even significand; 2^1024 and more is
\* Infinity
RoundDouble(b, sticky) ==
  With(BBitLen(b) - 53, LAMBDA s :
    IF s <= 0 THEN [inf |-> FALSE, mag |-> b]
    ELSE With(IF /\ BBit(b, s - 1) = 1
                 /\ (sticky \/ BAnyBelow(b, s - 1) \/ BBit(b, s) = 1)
              THEN BAddPow2(BClearBelow(b, s), s)
              ELSE BClearBelow(b, s),
              LAMBDA r : [inf |-> BBitLen(r) > 1024, mag |-> BNorm(r)]))

\* the magnitude of an integer Number
Mag(x) == BNorm(<<x.lo, x.hi>> \o x.top)

\* the Number of sign neg and magnitude r = RoundDouble(...)
FromRounded(neg, r) ==
  IF r.inf THEN Infinity(neg)
  ELSE LET b == r.mag \o <<0, 0>>
       IN  NumT(neg, BNorm(SubSeq(b, 3, Len(b))), b[2], b[1])

\* the literals of the source
HARDENED == Num(FALSE, 32768, 0)

Xff == Small(255)

\* ------------------------------------------------------------------------
\* JavaScript strings
\* ------------------------------------------------------------------------
IsDigit(c) == \E d \in 1..10 : Digits[d] = c

\* StrWhiteSpaceChar: WhiteSpace and LineTerminator.  The characters outside
\* ASCII are written by their escapes.
IsWhiteSpace(c) ==
  c \in {" ", "\t", "\n", "\r", "\f", "\\v", "\\u00A0", "\\uFEFF", "\\u1680",
         "\\u2000", "\\u2001", "\\u2002", "\\u2003", "\\u2004", "\\u2005",
         "\\u2006", "\\u2007", "\\u2008", "\\u2009", "\\u200A", "\\u2028",
         "\\u2029", "\\u202F", "\\u205F", "\\u3000"}

\* String.prototype.startsWith
startsWith(s, p) == Len(s) >= Len(p) /\ SubSeq(s, 1, Len(p)) = p

\* String.prototype.endsWith
endsWith(s, p) ==
  Len(s) >= Len(p) /\ SubSeq(s, Len(s) - Len(p) + 1, Len(s)) = p

\* String.prototype.split with a one-character separator: the pieces between
\* the separators, in order; a string without separator is its own only piece
RECURSIVE split(_, _)
split(s, sep) ==
  IF \A k \in 1..Len(s) : s[k] # sep THEN <<s>>
  ELSE LET k == CHOOSE j \in 1..Len(s) :
                  s[j] = sep /\ \A m \in 1..(j - 1) : s[m] # sep
       IN  <<SubSeq(s, 1, k - 1)>> \o split(SubSeq(s, k + 1, Len(s)), sep)

\* slice1 with the bound off by one: slice(2)
slice1_skipTwo(arr) ==
  IF Len(arr) <= 2 THEN <<>> ELSE Tail(Tail(arr))

\* Array.prototype.slice(1)
slice1(arr) == IF arr = <<>> THEN <<>> ELSE Tail(arr)

\* seg.replace(/['h]$/, ''): the pattern has no m flag, so $ is the end of
\* the string and at most the last character goes
replaceSuffix(seg) ==
  IF Len(seg) > 0 /\ seg[Len(seg)] \in {"'", "h"}
  THEN SubSeq(seg, 1, Len(seg) - 1)
  ELSE seg

\* p.slice(0, -1)
sliceDropLast(p) == IF Len(p) = 0 THEN p ELSE SubSeq(p, 1, Len(p) - 1)

\* the hexadecimal digits, those of 10 to 15 in both cases
HexDigits ==
  <<"0", "1", "2", "3", "4", "5", "6", "7", "8", "9", "a", "b", "c", "d",
    "e", "f", "A", "B", "C", "D", "E", "F">>

\* the value of the hexadecimal digit c, 16 for another character
HexVal(c) ==
  IF \E j \in 1..16 : HexDigits[j] = c
  THEN (CHOOSE j \in 1..16 : HexDigits[j] = c) - 1
  ELSE IF \E j \in 17..22 : HexDigits[j] = c
  THEN (CHOOSE j \in 17..22 : HexDigits[j] = c) - 7
  ELSE 16

\* the natural number written by the digit string z in base radix
RECURSIVE DigitsToInt(_, _)
DigitsToInt(z, radix) ==
  IF z = <<>> THEN 0
  ELSE DigitsToInt(SubSeq(z, 1, Len(z) - 1), radix) * radix
         + HexVal(z[Len(z)])

RECURSIVE IntPow(_, _)
IntPow(radix, n) == IF n = 0 THEN 1 ELSE radix * IntPow(radix, n - 1)

\* acc followed by the digits z: the digits are taken in groups whose value
\* is below 2^15
RECURSIVE GroupsOnto(_, _, _)
GroupsOnto(acc, z, radix) ==
  LET group == IF radix = 2 THEN 15
               ELSE IF radix = 8 THEN 5
               ELSE IF radix = 10 THEN 4 ELSE 3
      n == IF Len(z) < group THEN Len(z) ELSE group
      v == DigitsToInt(SubSeq(z, 1, n), radix)
      rest == SubSeq(z, n + 1, Len(z))
  IN  IF z = <<>> THEN acc
      ELSE IF acc = <<>> THEN GroupsOnto(BMulAdd(<<>>, 1, v), rest, radix)
      ELSE GroupsOnto(BMulAdd(acc, IntPow(radix, n), v), rest, radix)

\* the same, sixty digits at a time
RECURSIVE DigitsOnto(_, _, _)
DigitsOnto(acc, z, radix) ==
  IF acc = <<>> /\ z = <<>> THEN <<>>
  ELSE IF Len(z) <= 60 THEN GroupsOnto(acc, z, radix)
  ELSE DigitsOnto(GroupsOnto(acc, SubSeq(z, 1, 60), radix),
                  SubSeq(z, 61, Len(z)), radix)

DigitsToBig(z, radix) == DigitsOnto(<<>>, z, radix)

\* the Number nearest to the decimal value of the digit string z: exact up
\* to 2^53, rounded to 53 significant bits (ties to even) above
MathInt(z) ==
  FromRounded(FALSE, RoundDouble(DigitsToBig(z, 10), FALSE))

\* the longest prefix of s made of decimal digits
DigitPrefix(s) ==
  IF \A j \in 1..Len(s) : IsDigit(s[j]) THEN s
  ELSE SubSeq(s, 1, (CHOOSE j \in 1..Len(s) :
                       ~IsDigit(s[j]) /\ \A h \in 1..(j - 1) : IsDigit(s[h]))
                    - 1)

RECURSIVE TrimStart(_)
TrimStart(s) ==
  IF s # <<>> /\ IsWhiteSpace(s[1]) THEN TrimStart(Tail(s)) ELSE s

RECURSIVE TrimEnd(_)
TrimEnd(s) ==
  IF s # <<>> /\ IsWhiteSpace(s[Len(s)])
  THEN TrimEnd(SubSeq(s, 1, Len(s) - 1))
  ELSE s

\* parseInt(s, 10): leading white space is skipped, one sign is read, then the
\* longest run of digits; whatever follows is ignored; no digit gives NaN
parseInt10(s) ==
  With(TrimStart(s), LAMBDA t :
    With(DigitPrefix(IF t # <<>> /\ t[1] \in {"+", "-"} THEN Tail(t) ELSE t),
         LAMBDA z :
           IF z = <<>> THEN NaN
           ELSE [MathInt(z) EXCEPT !.neg = (t[1] = "-")]))

\* the decimal digits of the natural number b, n digits at least
PadDigits(b, n) ==
  With(BigToDecimal(b), LAMBDA d :
    [j \in 1..(IF Len(d) < n THEN n - Len(d) ELSE 0) |-> "0"] \o d)

\* b without its last n decimal digits: floor(b / 10^n)
RECURSIVE BDropDigits(_, _)
BDropDigits(b, n) ==
  IF n <= 0 \/ b = <<>> THEN b
  ELSE IF n >= 4 THEN BDropDigits(BDivMod(b, 10000).q, n - 4)
  ELSE BDropDigits(BDivMod(b, 10).q, n - 1)

\* floor(c / 5^p) and whether the division left a remainder
RECURSIVE DivPow5(_, _, _)
DivPow5(c, p, sticky) ==
  IF p = 0 \/ c = <<>> THEN [q |-> c, sticky |-> sticky]
  ELSE With(IF p >= 6 THEN 6 ELSE 1, LAMBDA step :
       With(BDivMod(c, IF step = 6 THEN 15625 ELSE 5), LAMBDA d :
         IF sticky \/ d.r # 0 THEN DivPow5(d.q, p - step, TRUE)
         ELSE DivPow5(d.q, p - step, FALSE)))

\* b * 5^p
RECURSIVE MulPow5(_, _)
MulPow5(b, p) ==
  IF p = 0 \/ b = <<>> THEN b
  ELSE IF p >= 6 THEN MulPow5(BMulAdd(b, 15625, 0), p - 6)
  ELSE MulPow5(BMulAdd(b, 5, 0), p - 1)

\* the double m * 2^-p is the one nearest to c * 10^-p, which is
\* (c / 5^p) * 2^-p (p = 0 for the integers; m is a significand, of 53
\* bits once the zeros at its end are dropped, and c is above m * 5^p / 16).
\* The quotient is worked out in units of 2^-64, so that it has more than 53
\* bits before it is rounded and the remainder decides the ties
ReadsBack(c, p, m) ==
  With(DivPow5(BShiftLeft(c, 64), p, FALSE), LAMBDA d :
    RoundDouble(d.q, d.sticky).mag = BShiftLeft(m, 64))

\* the natural number of k significant decimal digits that reads back as the
\* double m * 2^-p, in units of 10^-p (b = m * 5^p is the double in these
\* units and has nd decimal digits, k < nd); of two, the one closer to b;
\* <<>> when there is none
WithDigits(b, nd, k, p, m) ==
  With(BDropDigits(b, nd - k), LAMBDA head :
  With(BMulPow10(head, nd - k), LAMBDA below :
  With(BMulPow10(BMulAdd(head, 1, 1), nd - k), LAMBDA above :
  With(ReadsBack(below, p, m), LAMBDA okBelow :
  With(ReadsBack(above, p, m), LAMBDA okAbove :
    IF okBelow /\ okAbove
    THEN (IF BCmp(BSub(b, below), BSub(above, b)) <= 0 THEN below
          ELSE above)
    ELSE IF okBelow THEN below
    ELSE IF okAbove THEN above
    ELSE <<>>)))))

\* the natural number with the fewest significant decimal digits among those
\* that read back as the double; k counts the significant digits tried
RECURSIVE Shortest(_, _, _, _, _)
Shortest(b, nd, k, p, m) ==
  IF k >= nd THEN b
  ELSE IF WithDigits(b, nd, k, p, m) # <<>> THEN WithDigits(b, nd, k, p, m)
  ELSE Shortest(b, nd, k + 1, p, m)

\* s without the zeros at its end
DropZerosAtEnd(s) ==
  IF \A j \in 1..Len(s) : s[j] = "0" THEN <<>>
  ELSE SubSeq(s, 1, CHOOSE n \in 1..Len(s) :
                      s[n] # "0" /\ \A j \in (n + 1)..Len(s) : s[j] = "0")

\* Number::toString(x, 10) for an integer Number, NaN or an infinity, the
\* conversion a template literal applies: the decimal digits below 2^53,
\* above them the shortest digits that read back as x, followed by zeros up
\* to 21 digits and written with an exponent beyond
NumberToString(x) ==
  IF x.nan THEN <<"N", "a", "N">>
  ELSE
  With(Mag(x), LAMBDA m :
  With(IF x.neg /\ (x.inf \/ m # <<>>) THEN <<"-">> ELSE <<>>, LAMBDA sign :
    IF x.inf THEN sign \o <<"I", "n", "f", "i", "n", "i", "t", "y">>
    ELSE
    With(BigToDecimal(m), LAMBDA exact :
    With(IF BBitLen(m) <= 53 THEN exact
         ELSE BigToDecimal(Shortest(m, Len(exact), 1, 0, m)), LAMBDA d :
      IF Len(d) <= 21 THEN sign \o d
      ELSE
      With(DropZerosAtEnd(d), LAMBDA sig :
      With(BigToDecimal(BMulAdd(<<>>, 1, Len(d) - 1)), LAMBDA e :
        IF Len(sig) = 1 THEN sign \o sig \o <<"e", "+">> \o e
        ELSE sign \o <<sig[1], ".">> \o Tail(sig) \o <<"e", "+">> \o e))))))

\* the text Number::toString gives the number 0.sig * 10^n, sig being its
\* significant digits (the first and the last are not "0"): the digits are
\* written out for n from -5 to 21, with an exponent otherwise
PlaceDigits(sig, n) ==
  IF Len(sig) <= n /\ n <= 21
  THEN sig \o [j \in 1..(n - Len(sig)) |-> "0"]
  ELSE IF 0 < n /\ n <= 21
  THEN SubSeq(sig, 1, n) \o <<".">> \o SubSeq(sig, n + 1, Len(sig))
  ELSE IF 0 - 6 < n /\ n <= 0
  THEN <<"0", ".">> \o [j \in 1..(0 - n) |-> "0"] \o sig
  ELSE
  With(BigToDecimal(BMulAdd(<<>>, 1, IF n > 0 THEN n - 1 ELSE 1 - n)),
       LAMBDA e :
    <<sig[1]>> \o (IF Len(sig) = 1 THEN <<>> ELSE <<".">> \o Tail(sig))
      \o <<"e", IF n > 0 THEN "+" ELSE "-">> \o e)

\* Number::toString(x, 10) for the normal double x = m * 2^-p above 0 (m a
\* significand, of 53 bits once the zeros at its end are dropped): the
\* fewest digits that read back as x, placed
FractionToString(m, p) ==
  With(MulPow5(m, p), LAMBDA b :
  With(BigToDecimal(Shortest(b, Len(BigToDecimal(b)), 1, p, m)), LAMBDA d :
    PlaceDigits(DropZerosAtEnd(d), Len(d) - p)))

\* ------------------------------------------------------------------------
\* Number(s) for a string s (StringToNumber), kept exact: the parse gives
\* [nan, inf, neg, q, fr] for the value (-1)^neg * (q + 0.fr), q a natural
\* number and fr a string of decimal digits
\* ------------------------------------------------------------------------
\* the value of the digit string z where it is below cap, cap otherwise; cap
\* is below 10^9, and what is left of more than 9 digits once the zeros at
\* the front are dropped is 10^9 at least
SmallInt(z, cap) ==
  With(Cardinality({j \in 1..Len(z) : \A h \in 1..j : z[h] = "0"}),
       LAMBDA lead :
    IF Len(z) - lead > 9 THEN cap
    ELSE With(DigitsToInt(SubSeq(z, lead + 1, Len(z)), 10), LAMBDA r :
           IF r > cap THEN cap ELSE r))

Parsed(neg, q, fr) ==
  [nan |-> FALSE, inf |-> FALSE, neg |-> neg, q |-> q, fr |-> fr]

ParsedNaN ==
  [nan |-> TRUE, inf |-> FALSE, neg |-> FALSE, q |-> <<>>, fr |-> <<>>]

ParsedInfinity(neg) ==
  [nan |-> FALSE, inf |-> TRUE, neg |-> neg, q |-> <<>>, fr |-> <<>>]

\* 0x, 0o and 0b literals: no sign, one digit at least
NonDecimalLiteral(t) ==
  LET radix == IF t[2] \in {"x", "X"} THEN 16
               ELSE IF t[2] \in {"o", "O"} THEN 8 ELSE 2
      z == SubSeq(t, 3, Len(t))
  IN  IF z = <<>> \/ \E j \in 1..Len(z) : HexVal(z[j]) >= radix THEN ParsedNaN
      ELSE Parsed(FALSE, DigitsToBig(z, radix), <<>>)

\* the zeros the digit string z begins with
LeadingZeros(z) ==
  Cardinality({j \in 1..Len(z) : \A h \in 1..j : z[h] = "0"})

\* the digits u begins with, those after a point that follows them, and
\* what is left of u
Mantissa(u) ==
  With(DigitPrefix(u), LAMBDA ip :
  With(SubSeq(u, Len(ip) + 1, Len(u)), LAMBDA r1 :
    IF r1 # <<>> /\ r1[1] = "."
    THEN With(DigitPrefix(Tail(r1)), LAMBDA fr :
           [ip |-> ip, fr |-> fr, rest |-> SubSeq(r1, Len(fr) + 2, Len(r1))])
    ELSE [ip |-> ip, fr |-> <<>>, rest |-> r1]))

\* the exponent part r2 of a literal: nothing, or e or E, an optional sign
\* and one digit at least, nothing else
ExponentPart(r2) ==
  IF r2 = <<>> THEN [ok |-> TRUE, neg |-> FALSE, digits |-> <<>>]
  ELSE IF r2[1] \notin {"e", "E"}
       THEN [ok |-> FALSE, neg |-> FALSE, digits |-> <<>>]
  ELSE With(Tail(r2), LAMBDA r3 :
       With(IF r3 # <<>> /\ r3[1] \in {"+", "-"} THEN Tail(r3) ELSE r3,
            LAMBDA ed :
         [ok |-> ed # <<>> /\ DigitPrefix(ed) = ed,
          neg |-> r3 # <<>> /\ r3[1] = "-",
          digits |-> ed]))

\* the value of the digits all, lead zeros first and a digit other than 0
\* after them, with the point after the first pos of them. The value lies
\* between 10^(pos - lead - 1) and 10^(pos - lead): 10^309 and more is above
\* the largest double, and what is below 10^-324 is nearer to 0 than to
\* 2^-1074, the least double above 0
Placed(neg, all, pos, lead) ==
  IF pos - lead > 309 THEN ParsedInfinity(neg)
  ELSE IF pos - lead < 0 - 323 THEN Parsed(neg, <<>>, <<>>)
  ELSE IF pos >= Len(all)
       THEN Parsed(neg, BMulPow10(DigitsToBig(all, 10), pos - Len(all)),
                   <<>>)
  ELSE IF pos <= 0
       THEN Parsed(neg, <<>>, [j \in 1..(0 - pos) |-> "0"] \o all)
  ELSE Parsed(neg, DigitsToBig(SubSeq(all, 1, pos), 10),
              SubSeq(all, pos + 1, Len(all)))

\* StrDecimalLiteral: a sign, then Infinity, or digits with an optional
\* fraction and an optional exponent; a digit is needed on one side of the
\* point at least.  An exponent of 400 more than there are digits, and
\* above, stands for the same Number as that one does: with a digit other
\* than 0 the value is 10^400 at least, or below 10^-400
DecimalLiteral(t) ==
  With(t # <<>> /\ t[1] = "-", LAMBDA neg :
  With(IF t # <<>> /\ t[1] \in {"+", "-"} THEN Tail(t) ELSE t, LAMBDA u :
  With(Mantissa(u), LAMBDA m :
  With(ExponentPart(m.rest), LAMBDA x :
  With(m.ip \o m.fr, LAMBDA all :
    IF u = <<"I", "n", "f", "i", "n", "i", "t", "y">>
    THEN ParsedInfinity(neg)
    ELSE IF ~((m.ip # <<>> \/ m.fr # <<>>) /\ x.ok) THEN ParsedNaN
    ELSE IF LeadingZeros(all) = Len(all) THEN Parsed(neg, <<>>, <<>>)
    ELSE Placed(neg, all,
                Len(m.ip) + (IF x.neg THEN 0 - SmallInt(x.digits,
                                                        Len(all) + 400)
                             ELSE SmallInt(x.digits, Len(all) + 400)),
                LeadingZeros(all)))))))

\* StringToNumber before the rounding: white space at both ends is dropped,
\* the empty string is 0, what is no numeric literal is NaN
StringToNumber(s) ==
  With(TrimEnd(TrimStart(s)), LAMBDA t :
    IF t = <<>> THEN Parsed(FALSE, <<>>, <<>>)
    ELSE IF /\ Len(t) >= 2
            /\ t[1] = "0"
            /\ t[2] \in {"x", "X", "o", "O", "b", "B"}
         THEN NonDecimalLiteral(t)
    ELSE DecimalLiteral(t))

\* Math.floor of the double nearest to q + 0.fr, as a Number.  With p the
\* number of bits of q: above 53 bits the double is an integer; at 53 bits
\* the doubles are the integers, and the nearest one is taken (ties to the
\* even one); below, the doubles between q and q + 1 lie 2^(p - 53) apart and
\* the value rounds up to q + 1 when it is within 2^(p - 54) of it.
FloorOfDouble(q, fr) ==
  With(BBitLen(q), LAMBDA p :
  With(DigitsToBig(fr, 10), LAMBDA F :
    IF p >= 54 THEN FromRounded(FALSE, RoundDouble(q, F # <<>>))
    ELSE
    With(BMulPow10(<<1>>, Len(fr)), LAMBDA one :
    With(BCmp(BMulAdd(F, 2, 0), one), LAMBDA twice :
    With(IF F = <<>> THEN FALSE
         ELSE IF p = 53 THEN twice > 0 \/ (twice = 0 /\ BBit(q, 0) = 1)
         ELSE BCmp(BShiftLeft(BSub(one, F), 54 - p), one) <= 0, LAMBDA up :
      FromRounded(FALSE, [inf |-> FALSE,
                          mag |-> IF up THEN BMulAdd(q, 1, 1) ELSE q]))))))

\* Number(s) > 0: a positive literal that does not round to 0, which the
\* values up to 2^-1075 do; a fraction of 323 digits or fewer that is not 0
\* is 10^-323 at least, which is above 2^-1075
NumberPositive(s) ==
  With(StringToNumber(s), LAMBDA v :
  With(DigitsToBig(v.fr, 10), LAMBDA F :
    /\ ~v.nan
    /\ ~v.neg
    /\ \/ v.inf
       \/ v.q # <<>>
       \/ F # <<>> /\ Len(v.fr) <= 323
       \/ BCmp(BShiftLeft(F, 1075), BMulPow10(<<1>>, Len(v.fr))) > 0))

\* Math.max(0, Math.floor(Number(val) || 0)): the empty string and what is
\* not a number give 0, a negative value gives 0, the fraction of a positive
\* one is dropped
floorIndex(val) ==
  With(StringToNumber(val), LAMBDA v :
    IF v.nan \/ v.neg THEN Small(0)
    ELSE IF v.inf THEN Infinity(FALSE)
    ELSE FloorOfDouble(v.q, v.fr))

\* ------------------------------------------------------------------------
\* Uint8Array
\* ------------------------------------------------------------------------
Lit(bs) == [lit |-> bs]

IsLit(c) == "lit" \in DOMAIN c

ChunkLen(c) == IF IsLit(c) THEN Len(c.lit) ELSE c.hi - c.lo

\* arr.length
RECURSIVE byteLength(_)
byteLength(arr) ==
  IF arr = <<>> THEN 0 ELSE ChunkLen(Head(arr)) + byteLength(Tail(arr))

\* arr followed by the chunk c, normalised
Push(arr, c) ==
  IF ChunkLen(c) = 0 THEN arr
  ELSE IF arr = <<>> THEN <<c>>
  ELSE LET l == arr[Len(arr)]
           front == SubSeq(arr, 1, Len(arr) - 1)
       IN  IF IsLit(l) /\ IsLit(c) THEN Append(front, Lit(l.lit \o c.lit))
           ELSE IF ~IsLit(l) /\ ~IsLit(c) /\ l.dig = c.dig /\ l.hi = c.lo
                THEN Append(front, [dig |-> l.dig, lo |-> l.lo, hi |-> c.hi])
                ELSE Append(arr, c)

RECURSIVE Concat(_, _)
Concat(a, b) == IF b = <<>> THEN a ELSE Concat(Push(a, Head(b)), Tail(b))

\* bytes [a, b) of the chunk c
ChunkSlice(c, a, b) ==
  IF IsLit(c) THEN Lit(SubSeq(c.lit, a + 1, b))
  ELSE [dig |-> c.dig, lo |-> c.lo + a, hi |-> c.lo + b]

\* Uint8Array.prototype.slice(start, end): a copy of bytes [start, end),
\* both clamped to the array
RECURSIVE slice(_, _, _)
slice(arr, start, end) ==
  IF arr = <<>> \/ end <= 0 THEN <<>>
  ELSE LET c == Head(arr)
           n == ChunkLen(c)
           from == IF start > 0 THEN start ELSE 0
           to == IF end < n THEN end ELSE n
           rest == slice(Tail(arr), start - n, end - n)
       IN  IF from < to THEN Concat(<<ChunkSlice(c, from, to)>>, rest)
           ELSE rest

\* new Uint8Array(n): n zero bytes
Uint8Array(n) == IF n = 0 THEN <<>> ELSE <<Lit(Zeros(n))>>

\* target.set(src, offset); the sources only call it with room to spare
set(target, src, offset) ==
  Concat(Concat(slice(target, 0, offset), src),
         slice(target, offset + byteLength(src), byteLength(target)))

\* arr[i] = x for a Number x: the value modulo 256 is stored
setByte(arr, pos, x) == set(arr, <<Lit(<<ToUint32(x).lo % 256>>)>>, pos)

\* new DataView(arr.buffer).setUint32(offset, value, littleEndian)
setUint32(arr, offset, value, littleEndian) ==
  LET u == ToUint32(value)
      be == <<u.hi \div 256, u.hi % 256, u.lo \div 256, u.lo % 256>>
      le == <<be[4], be[3], be[2], be[1]>>
  IN  set(arr, <<Lit(IF littleEndian THEN le ELSE be)>>, offset)

\* new TextEncoder().encode('ed25519 seed')
Ed25519SeedText ==
  <<Lit(<<101, 100, 50, 53, 53, 49, 57, 32, 115, 101, 101, 100>>)>>

\* ------------------------------------------------------------------------
\* @noble/hashes
\* ------------------------------------------------------------------------
sha512 == "sha512"

\* hash.blockLen and hash.outputLen, in bytes
blockLen(hash) == IF hash = sha512 THEN 128 ELSE 64

outputLen(hash) == IF hash = sha512 THEN 64 ELSE 32

\* hash(data): the digest, an injective function of the data
digest(hash, data) ==
  <<[dig |-> [hash |-> hash, msg |-> data], lo |-> 0, hi |-> outputLen(hash)]>>

\* k without the known zero bytes at its end
RECURSIVE StripZeros(_)
StripZeros(k) ==
  IF k = <<>> THEN k
  ELSE LET l == k[Len(k)]
           front == SubSeq(k, 1, Len(k) - 1)
       IN  IF IsLit(l) /\ l.lit[Len(l.lit)] = 0
           THEN StripZeros(Push(front, Lit(SubSeq(l.lit, 1, Len(l.lit) - 1))))
           ELSE k

\* the key HMAC works with: a key longer than the hash block is replaced by
\* its digest, and the key is then padded to the block with zero bytes, so
\* known zero bytes at its end do not count
PadKey(hash, k) ==
  StripZeros(IF byteLength(k) > blockLen(hash) THEN digest(hash, k) ELSE k)

\* hmac(hash, key, message): the 64-byte digest, an injective function of the
\* padded key and of the message
hmac(hash, k, message) ==
  <<[dig |-> [hash |-> hash, key |-> PadKey(hash, k), msg |-> message],
     lo |-> 0, hi |-> outputLen(hash)]>>

\* ------------------------------------------------------------------------
\* ed25519Slip10.ts
\* ------------------------------------------------------------------------
PathFormatMsg == "Path must start with \"m\""

SegmentMsg == "Invalid path segment: "

\* what parsePath does: it returns the indices or throws Error(message + seg)
ParseOk(idx) ==
  [thrown |-> FALSE, message |-> "", seg |-> <<>>, indices |-> idx]

ParseThrow(message, seg) ==
  [thrown |-> TRUE, message |-> message, seg |-> seg, indices |-> <<>>]

\* segmentIndex_ts refusing a value that does not fit in 31 bits
segmentIndex_ts_ranged(seg) ==
  With(parseInt10(replaceSuffix(seg)), LAMBDA idx :
    IF IsNaN(idx) \/ idx.top # <<>> \/ idx.hi >= 32768 THEN NaN
    ELSE UnsignedShiftRight(BitOr(idx, HARDENED), 0))

\* segmentIndex_ts without the final >>> 0: the int32 of the | is returned
segmentIndex_ts_signed(seg) ==
  With(parseInt10(replaceSuffix(seg)), LAMBDA idx :
    IF IsNaN(idx) THEN NaN ELSE BitOr(idx, HARDENED))

\* the callback of map in parsePath; NaN stands for the throw
segmentIndex_ts(seg) ==
  With(parseInt10(replaceSuffix(seg)), LAMBDA idx :
    IF IsNaN(idx) THEN NaN
    ELSE UnsignedShiftRight(BitOr(idx, HARDENED), 0))

\* segmentIndex_js hardening only the segments that carry a suffix
segmentIndex_js_optional(p) ==
  With(endsWith(p, <<"'">>) \/ endsWith(p, <<"h">>), LAMBDA hardened :
  With(parseInt10(IF hardened THEN sliceDropLast(p) ELSE p), LAMBDA idx :
    IF IsNaN(idx) THEN NaN
    ELSE IF hardened THEN UnsignedShiftRight(BitOr(idx, HARDENED), 0)
    ELSE UnsignedShiftRight(idx, 0)))

\* the callback of map in parsePath of ed25519Slip10.js
segmentIndex_js(p) ==
  With(endsWith(p, <<"'">>) \/ endsWith(p, <<"h">>), LAMBDA hardened :
  With(parseInt10(IF hardened THEN sliceDropLast(p) ELSE p), LAMBDA idx :
    IF IsNaN(idx) THEN NaN
    ELSE UnsignedShiftRight(BitOr(idx, HARDENED), 0)))

segmentIndex(im, seg) ==
  IF im = "ts" THEN segmentIndex_ts(seg) ELSE segmentIndex_js(seg)

\* Array.prototype.map with the callback above: the segments are visited from
\* the first one on and the first throw ends the visit
RECURSIVE mapSegments(_, _)
mapSegments(im, segs) ==
  IF segs = <<>> THEN ParseOk(<<>>)
  ELSE With(segmentIndex(im, Head(segs)), LAMBDA x :
         IF IsNaN(x) THEN ParseThrow(SegmentMsg, Head(segs))
         ELSE With(mapSegments(im, Tail(segs)), LAMBDA r :
                IF r.thrown THEN r ELSE ParseOk(<<x>> \o r.indices)))

\* parsePath_ts testing the root marker after the segments
parsePath_ts_rootLast(p) ==
  With(mapSegments("ts", slice1(split(p, "/"))), LAMBDA r :
    IF r.thrown THEN r
    ELSE IF ~startsWith(p, <<"m">>) THEN ParseThrow(PathFormatMsg, <<>>)
    ELSE r)

parsePath_ts(p) ==
  IF ~startsWith(p, <<"m">>) THEN ParseThrow(PathFormatMsg, <<>>)
  ELSE mapSegments("ts", slice1(split(p, "/")))

parsePath_js(p) ==
  IF ~startsWith(p, <<"m">>) THEN ParseThrow(PathFormatMsg, <<>>)
  ELSE LET parts == slice1(split(p, "/"))
       IN  mapSegments("js", parts)

parsePath(im, p) ==
  IF im = "ts" THEN parsePath_ts(p) ELSE parsePath_js(p)

\* ed25519Slip10.js: hmacSha512(key, data)
hmacSha512(k, data) == hmac(sha512, data, k)

\* the first three statements of derivePath; I is the digest
masterKey_ts(seedKey, s) ==
  With(hmac(sha512, s, seedKey), LAMBDA master :
    [I |-> master,
     key |-> slice(master, 0, 32),
     chainCode |-> slice(master, 32, byteLength(master))])

\* masterKey_js with the key one byte short: I.slice(0, 31)
masterKey_js_short(seedKey, s) ==
  With(hmacSha512(seedKey, s), LAMBDA I :
    [I |-> I, key |-> slice(I, 0, 31), chainCode |-> slice(I, 32, 64)])

masterKey_js(seedKey, s) ==
  With(hmacSha512(seedKey, s), LAMBDA I :
    [I |-> I, key |-> slice(I, 0, 32), chainCode |-> slice(I, 32, 64)])

masterKey(im, seedKey, s) ==
  IF im = "ts" THEN masterKey_ts(seedKey, s)
  ELSE masterKey_js(seedKey, s)

\* the body of the loop of derivePath; buf is the 37-byte buffer it builds
deriveChild_ts(k, cc, idx) ==
  With(Uint8Array(37), LAMBDA buf0 :
  With(set(buf0, k, 1), LAMBDA buf1 :
  With(setUint32(buf1, 33, idx, FALSE), LAMBDA buf :
  With(hmac(sha512, buf, cc), LAMBDA I :
    [I |-> I, buf |-> buf, key |-> slice(I, 0, 32),
     chainCode |-> slice(I, 32, byteLength(I))]))))

\* deriveChild_js writing the index least significant byte first
deriveChild_js_littleEndian(privKey, cc, idx) ==
  With(Uint8Array(1 + byteLength(privKey) + 4), LAMBDA d0 :
  With(setByte(d0, 0, Small(0)), LAMBDA d1 :
  With(set(d1, privKey, 1), LAMBDA d2 :
  With(byteLength(d2), LAMBDA n :
  With(setByte(d2, n - 1, BitAnd(UnsignedShiftRight(idx, 24), Xff)),
       LAMBDA d3 :
  With(setByte(d3, n - 2, BitAnd(UnsignedShiftRight(idx, 16), Xff)),
       LAMBDA d4 :
  With(setByte(d4, n - 3, BitAnd(UnsignedShiftRight(idx, 8), Xff)),
       LAMBDA d5 :
  With(setByte(d5, n - 4, BitAnd(idx, Xff)), LAMBDA data :
  With(hmacSha512(cc, data), LAMBDA I2 :
    [I |-> I2, buf |-> data, key |-> slice(I2, 0, 32),
     chainCode |-> slice(I2, 32, 64)])))))))))

deriveChild_js(privKey, cc, idx) ==
  With(Uint8Array(1 + byteLength(privKey) + 4), LAMBDA d0 :
  With(setByte(d0, 0, Small(0)), LAMBDA d1 :
  With(set(d1, privKey, 1), LAMBDA d2 :
  With(byteLength(d2), LAMBDA n :
  With(setByte(d2, n - 4, BitAnd(UnsignedShiftRight(idx, 24), Xff)),
       LAMBDA d3 :
  With(setByte(d3, n - 3, BitAnd(UnsignedShiftRight(idx, 16), Xff)),
       LAMBDA d4 :
  With(setByte(d4, n - 2, BitAnd(UnsignedShiftRight(idx, 8), Xff)),
       LAMBDA d5 :
  With(setByte(d5, n - 1, BitAnd(idx, Xff)), LAMBDA data :
  With(hmacSha512(cc, data), LAMBDA I2 :
    [I |-> I2, buf |-> data, key |-> slice(I2, 0, 32),
     chainCode |-> slice(I2, 32, 64)])))))))))

deriveChild(im, k, cc, idx) ==
  IF im = "ts" THEN deriveChild_ts(k, cc, idx)
  ELSE deriveChild_js(k, cc, idx)

\* what derivePath does: it returns { key, chainCode } or lets the Error of
\* parsePath through
Returned(k, cc) ==
  [ok |-> TRUE, key |-> k, chainCode |-> cc,
   message |-> "", seg |-> <<>>]

Thrown(message, seg) ==
  [ok |-> FALSE, key |-> <<>>, chainCode |-> <<>>,
   message |-> message, seg |-> seg]

\* no call has ended
NoOutcome == Thrown("", <<>>)

\* ------------------------------------------------------------------------
\* App.tsx
\* ------------------------------------------------------------------------
\* deriveAccount: `m/44'/501'/${acctIndex}'/0'`
accountPath(acctIndex) ==
  <<"m", "/", "4", "4", "'", "/", "5", "0", "1", "'", "/">>
    \o NumberToString(acctIndex) \o <<"'", "/", "0", "'">>

\* ------------------------------------------------------------------------
\* Inputs
\* ------------------------------------------------------------------------
RECURSIVE Counting(_)
Counting(n) == IF n = 0 THEN <<>> ELSE Append(Counting(n - 1), n)

\* the empty seed and a 64-byte seed as bip39 produces
Seeds == {<<>>, <<Lit(Counting(64))>>}

\* seeds longer than the 128-byte block of SHA-512: 129 bytes 01, and the
\* same followed by a byte 00
LongSeeds ==
  {<<Lit([j \in 1..129 |-> 1])>>, <<Lit([j \in 1..129 |-> 1] \o <<0>>)>>}

\* the empty path, paths whose first piece begins with m without being m,
\* and segments that parseInt reads otherwise than digit by digit: white
\* space before the digits, and a decimal above 2^53 that no double holds
OddPaths ==
  {<<>>, <<"/", "0">>, <<"m", "x">>, <<"m", "x", "/", "0">>,
   <<"m", "/", "\t", "5">>,
   <<"m", "/", "9", "0", "0", "7", "1", "9", "9", "2", "5", "4", "7", "4", "0",
     "9", "9", "3">>}

Segments ==
  {<<"0">>, <<"0", "'">>, <<"0", "h">>,
   <<"4", "4", "'">>,
   <<"2", "1", "4", "7", "4", "8", "3", "6", "4", "7">>,
   <<"2", "1", "4", "7", "4", "8", "3", "6", "4", "8">>,
   <<"4", "2", "9", "4", "9", "6", "7", "2", "9", "7", "'">>,
   <<"9", "0", "0", "7", "1", "9", "9", "2", "5", "4", "7", "4", "0", "9",
     "9", "1">>,
   <<>>, <<"a", "b", "c", "'">>, <<"-", "5">>,
   <<"1", "2", "a", "b", "c">>}

\* the paths of d segments after a first piece m or 44'
RECURSIVE PathsOfDepth(_)
PathsOfDepth(d) ==
  IF d = 0 THEN {<<"m">>, <<"4", "4", "'">>}
  ELSE {p \o <<"/">> \o s : p \in PathsOfDepth(d - 1), s \in Segments}

\* what the account index input, of type number, hands to
\* handleIndexChange (the empty string, or the text typed when it is that of
\* a finite number): the indices up to MaxAcct, the same plus 2^31, values
\* handleIndexChange turns into 0, exponent notation (10, and 10^21 which
\* prints as 1e+21), a decimal above 2^53, 2^53 - 2^31 - 1, the last index
\* that is below 2^53 with 2^31 added, and 2 * 10^21 - 2^31, which prints
\* as 1.9999999999978525e+21
IndexVals ==
  {NumberToString(Small(a)) : a \in 0..MaxAcct}
    \cup {<<"2", "1", "4", "7", "4", "8", "3", "6", "4", "8">>,
          <<"2", "1", "4", "7", "4", "8", "3", "6", "5", "1">>,
          <<>>, <<"-", "5">>, <<"1", ".", "5">>, <<"1", "e", "1">>,
          <<"1", "e", "2", "1">>,
          <<"9", "0", "0", "7", "1", "9", "9", "2", "5", "4", "7", "4", "0",
            "9", "9", "3">>,
          <<"9", "0", "0", "7", "1", "9", "7", "1", "0", "7", "2", "5", "7",
            "3", "4", "3">>,
          <<"1", "9", "9", "9", "9", "9", "9", "9", "9", "9", "9", "9", "7",
            "8", "5", "2", "5", "1", "6", "3", "5", "2">>}

\* the paths derived: those enumerated, and those deriveAccount builds
Paths ==
  UNION {PathsOfDepth(d) : d \in 0..MaxDepth}
    \cup OddPaths \cup {accountPath(floorIndex(v)) : v \in IndexVals}

\* the seed 000102030405060708090a0b0c0d0e0f of SLIP-10 test vector 1 for
\* ed25519 and the first chains of that vector
Vector1Seed == <<Lit(<<0, 1, 2, 3, 4, 5, 6, 7, 8, 9, 10, 11, 12, 13, 14, 15>>)>>

VectorPaths == {<<"m">>, <<"m", "/", "0", "'">>,
                <<"m", "/", "0", "'", "/", "1", "'">>}

\* the (seed, path) pairs a behaviour of Spec starts from
Inputs ==
  (Seeds \X Paths) \cup ({Vector1Seed} \X VectorPaths)
    \cup (LongSeeds \X {<<"m">>})

\* the inputs of a behaviour that calls derivePath several times
CallSeeds == {<<Lit(<<1, 2, 3>>)>>, <<Lit(Counting(64))>>}

CallPaths == {<<"m">>, <<"m", "/", "0", "'">>, accountPath(Small(1)),
              <<"4", "4", "'", "/", "0", "'">>,
              <<"m", "/", "a", "b", "c", "'">>, <<"m", "/", "-", "5">>}

\* ------------------------------------------------------------------------
\* derivePath, one step at a time
\* ------------------------------------------------------------------------
VARIABLES
  impl,       \* "ts": ed25519Slip10.ts is the module loaded, "js": the .js
  SEED_KEY,   \* the module-level buffer (ED25519_SEED in the .js)
  seed,       \* the caller's seed buffer, passed by reference
  path,       \* the path argument
  pc,         \* "master", "parse", "loop", "done", "thrown"; "idle" when
              \* no call is being followed
  key,        \* let key (privKey in the .js)
  chainCode,  \* let chainCode
  indices,    \* the array parsePath returned
  i,          \* the position of the loop in indices, from 1
  outcome,    \* what the call returned or threw
  hmacLog,    \* the digests computed by the current call, in order
  seedIn,     \* the bytes of the seed buffer when the call was made
  calls       \* the calls finished so far, in order

dvars == <<impl, SEED_KEY, seed, path, pc, key, chainCode, indices, i,
           outcome, hmacLog, seedIn, calls>>

\* the state of the App component
VARIABLES
  app,         \* which export default function App of App.tsx is mounted:
               \* 1 for the one of line 28, 2 for the one of line 412
  mnemonic,    \* useState('')
  index,       \* useState(0)
  pubkey,      \* useState(null), with every update made so far applied
  balance,     \* useState(null)
  networkRpc,  \* useState(ALCHEMY_URL || ''), useState(clusterApiUrl('devnet'))
  statusKind,  \* useState('') of line 35; the second component has none
  status,      \* useState('') of line 419, the pieces of the text in order;
               \* the text of line 34 is not followed
  keypairRef,  \* useRef(null), its .current
  connRef,     \* useRef(new Connection(networkRpc, 'confirmed')), .current
  pending,     \* the bag of the promises and timers awaited and not yet
               \* settled: they settle in any order
  balanceOf,   \* history: the public key and the endpoint of the getBalance
               \* whose reply the balance field shows, Null when it shows
               \* no reply
  rendered     \* what the last render saw: the pubkey its closures hold,
               \* and whether keypairRef.current was set when it ran

wvars == <<app, mnemonic, index, pubkey, balance, networkRpc, statusKind,
           status, keypairRef, connRef, pending, balanceOf, rendered>>

vars == <<dvars, wvars>>

\* null
Null == [null |-> TRUE]

\* import.meta.env.VITE_ALCHEMY_URL, the RPC endpoint of the build
ALCHEMY_URL == "https://solana-devnet.g.alchemy.com/v2/key"

\* clusterApiUrl('devnet'), the endpoint of the airdrops
DevnetUrl == "https://api.devnet.solana.com"

\* new Connection(endpoint, 'confirmed')
Connection(endpoint) == [rpcEndpoint |-> endpoint]

\* the component of line 28 as mounted: the effect of the first render
\* finds no pubkey
Mounted ==
  /\ app = 1
  /\ mnemonic = <<>>
  /\ index = Small(0)
  /\ pubkey = Null
  /\ balance = Null
  /\ networkRpc = ALCHEMY_URL
  /\ statusKind = ""
  /\ status = <<>>
  /\ keypairRef = Null
  /\ connRef = Connection(ALCHEMY_URL)
  /\ pending = EmptyBag
  /\ balanceOf = Null
  /\ rendered = [pubkey |-> Null, keypair |-> FALSE]

\* the component of line 412 as mounted: its two effects find no pubkey and
\* no mnemonic
Mounted2 ==
  /\ app = 2
  /\ mnemonic = <<>>
  /\ index = Small(0)
  /\ pubkey = Null
  /\ balance = Null
  /\ networkRpc = DevnetUrl
  /\ statusKind = ""
  /\ status = <<>>
  /\ keypairRef = Null
  /\ connRef = Connection(DevnetUrl)
  /\ pending = EmptyBag
  /\ balanceOf = Null
  /\ rendered = [pubkey |-> Null, keypair |-> FALSE]

CallRecord(o) == [seed |-> seedIn, path |-> path, outcome |-> o]

Enter(s, p) ==
  /\ seed = s
  /\ seedIn = s
  /\ path = p
  /\ pc = "master"
  /\ key = <<>>
  /\ chainCode = <<>>
  /\ indices = <<>>
  /\ i = 0
  /\ outcome = NoOutcome
  /\ hmacLog = <<>>

Init ==
  /\ impl \in {"ts", "js"}
  /\ SEED_KEY = Ed25519SeedText
  /\ calls = <<>>
  /\ \E in \in Inputs : Enter(in[1], in[2])
  /\ Mounted

InitCalls ==
  /\ impl \in {"ts", "js"}
  /\ SEED_KEY = Ed25519SeedText
  /\ calls = <<>>
  /\ \E s \in CallSeeds, p \in CallPaths : Enter(s, p)
  /\ Mounted

\* Master keeping the master key in the module-level buffer
Master_scratch ==
  /\ pc = "master"
  /\ LET m == masterKey(impl, SEED_KEY, seed)
     IN  /\ key' = m.key
         /\ chainCode' = m.chainCode
         /\ hmacLog' = Append(hmacLog, m.I[1].dig)
         /\ SEED_KEY' = m.key
  /\ pc' = "parse"
  /\ UNCHANGED <<impl, seed, path, indices, i, outcome, seedIn, calls, wvars>>

\* const master = hmac(...); let key = ...; let chainCode = ...
Master ==
  /\ pc = "master"
  /\ LET m == masterKey(impl, SEED_KEY, seed)
     IN  /\ key' = m.key
         /\ chainCode' = m.chainCode
         /\ hmacLog' = Append(hmacLog, m.I[1].dig)
  /\ pc' = "parse"
  /\ UNCHANGED <<impl, SEED_KEY, seed, path, indices, i, outcome, seedIn,
                 calls, wvars>>

\* parsePath(path), evaluated once before the first iteration
Parse ==
  /\ pc = "parse"
  /\ LET r == parsePath(impl, path)
     IN  IF r.thrown
         THEN /\ pc' = "thrown"
              /\ outcome' = Thrown(r.message, r.seg)
              /\ calls' = Append(calls, CallRecord(Thrown(r.message, r.seg)))
              /\ UNCHANGED <<indices, i>>
         ELSE /\ pc' = "loop"
              /\ indices' = r.indices
              /\ i' = 1
              /\ UNCHANGED <<outcome, calls>>
  /\ UNCHANGED <<impl, SEED_KEY, seed, path, key, chainCode, hmacLog,
                 seedIn, wvars>>

\* Child walking the indices from the last one to the first
Child_reversed ==
  /\ pc = "loop"
  /\ i <= Len(indices)
  /\ LET c == deriveChild(impl, key, chainCode,
                          indices[Len(indices) - i + 1])
     IN  /\ key' = c.key
         /\ chainCode' = c.chainCode
         /\ hmacLog' = Append(hmacLog, c.I[1].dig)
  /\ i' = i + 1
  /\ UNCHANGED <<impl, SEED_KEY, seed, path, pc, indices, outcome, seedIn,
                 calls, wvars>>

\* one iteration of the loop
Child ==
  /\ pc = "loop"
  /\ i <= Len(indices)
  /\ LET c == deriveChild(impl, key, chainCode, indices[i])
     IN  /\ key' = c.key
         /\ chainCode' = c.chainCode
         /\ hmacLog' = Append(hmacLog, c.I[1].dig)
  /\ i' = i + 1
  /\ UNCHANGED <<impl, SEED_KEY, seed, path, pc, indices, outcome, seedIn,
                 calls, wvars>>

\* return { key, chainCode }
Return ==
  /\ pc = "loop"
  /\ i > Len(indices)
  /\ pc' = "done"
  /\ outcome' = Returned(key, chainCode)
  /\ calls' = Append(calls, CallRecord(Returned(key, chainCode)))
  /\ UNCHANGED <<impl, SEED_KEY, seed, path, key, chainCode, indices, i,
                 hmacLog, seedIn, wvars>>

\* the caller calls derivePath again, with any seed and path
Call ==
  /\ pc \in {"done", "thrown"}
  /\ Len(calls) < MaxCalls
  /\ \E s \in CallSeeds, p \in CallPaths :
       /\ seed' = s
       /\ seedIn' = s
       /\ path' = p
  /\ pc' = "master"
  /\ key' = <<>>
  /\ chainCode' = <<>>
  /\ indices' = <<>>
  /\ i' = 0
  /\ outcome' = NoOutcome
  /\ hmacLog' = <<>>
  /\ UNCHANGED <<impl, SEED_KEY, calls, wvars>>

Next == Master \/ Parse \/ Child \/ Return

Spec == Init /\ [][Next]_vars

NextCalls == Next \/ Call

SpecCalls == InitCalls /\ [][NextCalls]_vars

\* ------------------------------------------------------------------------
\* derivePath as one function of (seed, path), for a given content of the
\* module-level buffer
\* ------------------------------------------------------------------------
\* the loop of derivePath from the pair (key, chainCode) over idx; a key is
\* never empty, and the test of it has c computed before the next iteration
RECURSIVE loop(_, _, _, _)
loop(im, k, cc, idx) ==
  IF idx = <<>> THEN [key |-> k, chainCode |-> cc]
  ELSE With(deriveChild(im, k, cc, Head(idx)), LAMBDA c :
         IF c.key = <<>> /\ c.chainCode = <<>> THEN c
         ELSE loop(im, c.key, c.chainCode, Tail(idx)))

derivePath(im, seedKey, s, p) ==
  With(masterKey(im, seedKey, s), LAMBDA m :
  With(parsePath(im, p), LAMBDA r :
    IF r.thrown THEN Thrown(r.message, r.seg)
    ELSE With(loop(im, m.key, m.chainCode, r.indices), LAMBDA f :
           Returned(f.key, f.chainCode))))

\* ------------------------------------------------------------------------
\* App.tsx, the wallet component: every handler runs to its first await in
\* one step, and each settled promise resumes its handler up to its next
\* await. The call of derivePath inside deriveAccount runs to its end within
\* the step that makes it, so no call is followed here (pc = "idle").
\* The file holds two components under the name App, the one of line 28 and
\* the one of line 412, and a build mounts one of them.
\* ------------------------------------------------------------------------
\* the promises and timers that may be awaited at one time
MaxPending == 2

\* the mnemonics bip39.validateMnemonic accepts, among those typed; those
\* bip39.generateMnemonic returns for 256 bits are among them
ValidMnemonics ==
  {<<"legal", "winner", "thank", "year", "wave", "sausage", "worth",
     "useful", "legal", "winner", "thank", "year", "wave", "sausage",
     "worth", "useful", "legal", "winner", "thank", "year", "wave",
     "sausage", "worth", "title">>}

\* the texts confirmed in the import dialog or given to prompt(), trimmed,
\* as lists of words
ImportTexts == ValidMnemonics \cup {<<"legal", "winner">>}

\* what is typed in the account index field: 1, and nothing, which gives 0
IndexEdits == {<<"1">>, <<>>}

\* the values of the three options of the network select
NetworkOptions ==
  {DevnetUrl, "https://api.testnet.solana.com",
   "https://api.mainnet-beta.solana.com"}

\* networkRpc.includes('devnet'), over the endpoints of this module
includesDevnet(url) == url \in {DevnetUrl, ALCHEMY_URL}

validateMnemonic(words) == words \in ValidMnemonics

\* bip39.mnemonicToSeed: 64 bytes, an injective function of the words
mnemonicToSeed(words) ==
  <<[dig |-> [hash |-> "pbkdf2-sha512", key |-> words, msg |-> "mnemonic"],
     lo |-> 0, hi |-> 64]>>

\* Keypair.fromSeed(seed): the public key is a function of the seed, no two
\* seeds giving one key, and the secretKey, the seed followed by the public
\* key, holds nothing more. The public key is named by its seed, and for
\* short by the place of the seed in the list known when it is there
fromSeed(s, known) ==
  [publicKey |->
     [ed25519 |->
        IF \E n \in DOMAIN known : known[n] = s
        THEN [seed |-> CHOOSE n \in DOMAIN known : known[n] = s]
        ELSE s]]

\* the account indexes a derivation can be asked for: 0, which the timer of
\* generateMnemonic asks for, and those of the index field
AcctIndexes == {Small(0)} \cup {floorIndex(val) : val \in IndexEdits}

\* the node derivePath returns, or what it throws, for each build, mnemonic
\* and account index of this module, with the module-level buffer as
\* loaded: a table, so that each derivation is worked out once
Nodes ==
  [c \in {"ts", "js"} \X {Ed25519SeedText} \X ValidMnemonics \X AcctIndexes
     |-> derivePath(c[1], c[2], mnemonicToSeed(c[3]), accountPath(c[4]))]
    @@ <<>>

\* the members of the set ks, each once, in a fixed order
InOrder(ks) ==
  CHOOSE q \in [1..Cardinality(ks) -> ks] :
    \A a, b \in 1..Cardinality(ks) : q[a] = q[b] => a = b

\* const seed = await bip39.mnemonicToSeed(words); the path of acctIndex;
\* const node = derivePath(seed, path); const kp = Keypair.fromSeed(node.key)
\* for every call the component can make, the keys of the nodes being the
\* seeds with a short name; kp is Null where derivePath throws
Derived ==
  With(Nodes, LAMBDA tab :
  With(InOrder({tab[c].key : c \in {d \in DOMAIN tab : tab[d].ok}}),
       LAMBDA known :
    [c \in DOMAIN tab |->
       [node |-> tab[c],
        kp |-> IF tab[c].ok THEN fromSeed(tab[c].key, known) ELSE Null]]
      @@ <<>>))

\* publicKey.toBase58()
toBase58(pk) == [base58 |-> pk]

\* the lamports getBalance resolves to: what an account holds is not in the
\* hands of the component, so every reply is one of these; toFixed(6) shows
\* the two as the same text, toString() does not
Lamports == {Small(0), Small(499)}

\* the texts of the balance field while a reply is awaited, in the first
\* component and in the second, and after a rejection
Ellipsis == <<"\\u2026">>

LoadingText == <<"l", "o", "a", "d", "i", "n", "g", ".", ".", ".">>

ErrorText == <<"e", "r", "r", "o", "r">>

\* the double nearest to b / LAMPORTS_PER_SOL, in units of 2^-90, for a
\* natural number b: the quotient of b * 2^90 by 10^9 has more than 53 bits
\* and is rounded to 53
DivideByLamportsPerSol(b) ==
  With(BDivMod(BShiftLeft(b, 90), 1000), LAMBDA d1 :
  With(BDivMod(d1.q, 1000), LAMBDA d2 :
  With(BDivMod(d2.q, 1000), LAMBDA d3 :
    RoundDouble(d3.q, d1.r # 0 \/ d2.r # 0 \/ d3.r # 0).mag)))

\* (bal / LAMPORTS_PER_SOL).toFixed(6) for lamports bal below 10^30: with x
\* the quotient as a double, the integer n nearest to x * 10^6 (the larger
\* one of two), written with a point before its last six digits
toFixed6(bal) ==
  With(DivideByLamportsPerSol(Mag(bal)), LAMBDA x :
  With(BShiftRight(BAddPow2(BMulAdd(BMulAdd(x, 1000, 0), 1000, 0), 89), 90),
       LAMBDA n :
  With(PadDigits(n, 7), LAMBDA d :
    SubSeq(d, 1, Len(d) - 6) \o <<".">> \o SubSeq(d, Len(d) - 5, Len(d)))))

\* (bal / LAMPORTS_PER_SOL).toString() for lamports bal below 10^30. The
\* quotient is the double nearest to bal * 10^-9; up to 15 digits of bal,
\* no two decimals of that length read back as one double, so the fewest
\* digits that read back as the quotient are those of bal without the zeros
\* at its end; beyond 15 they are searched for
solToString(bal) ==
  With(Mag(bal), LAMBDA b :
    IF b = <<>> THEN <<"0">>
    ELSE With(BigToDecimal(b), LAMBDA d :
           IF Len(d) <= 15 THEN PlaceDigits(DropZerosAtEnd(d), Len(d) - 9)
           ELSE FractionToString(DivideByLamportsPerSol(b), 90)))

\* the texts of the recipient and amount fields at a click on Send: the
\* recipient empty, a text that is no public key, or the base58 of one; the
\* amount 0.01 as mounted, 0, or nothing
SendFields ==
  With(toBase58([ed25519 |-> <<Lit(Counting(32))>>]), LAMBDA pk :
    {[recipient |-> [text |-> ""], amount |-> <<"0", ".", "0", "1">>],
     [recipient |-> [text |-> "abc"], amount |-> <<"0", ".", "0", "1">>],
     [recipient |-> pk, amount |-> <<"0">>],
     [recipient |-> pk, amount |-> <<>>],
     [recipient |-> pk, amount |-> <<"0", ".", "0", "1">>]})

\* What the conversions give on the inputs of this module, as tables, so
\* that each is worked out once and looked up by the steps below:
\* floorIndex of what is typed in the index field, the two texts of a
\* balance, amountNum > 0 for the amounts of the send form, and the text of
\* an account index in a template literal
FlooredEdits == [val \in IndexEdits |-> floorIndex(val)] @@ <<>>

FixedTexts == [bal \in Lamports |-> toFixed6(bal)] @@ <<>>

SolTexts == [bal \in Lamports |-> solToString(bal)] @@ <<>>

PositiveAmounts ==
  [a \in {f.amount : f \in SendFields} |-> NumberPositive(a)] @@ <<>>

IndexTexts == [n \in AcctIndexes |-> NumberToString(n)] @@ <<>>

\* new PublicKey(recipient) does not throw
IsPublicKey(recipient) == "base58" \in DOMAIN recipient

\* the signature sendTransaction resolves to, and the message of the error
\* a request is rejected with
Signature == "5VERv8NMvzbJMEkV8xnrLkEaWRtSz9CosKDYjCJjBRnb"

RejectionMessage == "failed to get info about account"

SeedTask(words, acctIndex) ==
  [kind |-> "seed", words |-> words, acctIndex |-> acctIndex]

BalanceTask(conn, pub) == [kind |-> "balance", conn |-> conn, pub |-> pub]

\* setTimeout(() => deriveAccount(m, 0), 50)
TimerTask(words) == [kind |-> "timer", words |-> words]

\* navigator.clipboard.writeText(text)
CopyTask == [kind |-> "copy"]

\* requestAirdrop at its first await (stage 1, requestAirdrop) or its second
\* (stage 2, confirmTransaction), with the pubkey of the render that was
\* clicked
AirdropTask(pub, stage) == [kind |-> "airdrop", pub |-> pub, stage |-> stage]

\* sendSol at its first await (stage 1, conn.sendTransaction) or its second
\* (stage 2, conn.confirmTransaction), with its const from; its const conn
\* serves the two calls awaited and nothing else
SendTask(from, stage) == [kind |-> "send", from |-> from, stage |-> stage]

\* the bag with one task t more, and with one less
Add(bag, t) == bag (+) SetToBag({t})

Remove(bag, t) == bag (-) SetToBag({t})

\* what a render run now would see
Shown == [pubkey |-> pubkey, keypair |-> keypairRef # Null]

\* the render that follows a handler of a click or a change that set state:
\* it applies the updates of the handler, it reads keypairRef.current anew,
\* and it leaves the updates a continuation or a timer made since the last
\* render to the render of their own, so the closures keep their pubkey
HandlerRender == rendered' = [rendered EXCEPT !.keypair = keypairRef # Null]

\* the render of the updates made after an await or in a timer: React 18
\* batches them and renders them in a later task
Render ==
  /\ rendered # Shown
  /\ rendered' = Shown
  /\ UNCHANGED <<app, mnemonic, index, pubkey, balance, networkRpc,
                 statusKind, status, keypairRef, connRef, pending,
                 balanceOf>>
  /\ UNCHANGED dvars

\* deriveAccount up to its await, rest being what else is awaited
deriveAccount(rest, words, acctIndex) ==
  IF ~validateMnemonic(words)
  THEN /\ statusKind' = "error"
       /\ pending' = rest
  ELSE /\ statusKind' = "loading"
       /\ pending' = Add(rest, SeedTask(words, acctIndex))

\* fetchBalance up to its await, on the connection conn of that moment
fetchBalance(rest, conn, pub) ==
  /\ balance' = Ellipsis
  /\ balanceOf' = Null
  /\ pending' = Add(rest, BalanceTask(conn, pub))

InitWallet ==
  /\ impl \in {"ts", "js"}
  /\ SEED_KEY = Ed25519SeedText
  /\ calls = <<>>
  /\ seed = <<>>
  /\ seedIn = <<>>
  /\ path = <<>>
  /\ pc = "idle"
  /\ key = <<>>
  /\ chainCode = <<>>
  /\ indices = <<>>
  /\ i = 0
  /\ outcome = NoOutcome
  /\ hmacLog = <<>>
  /\ Mounted \/ Mounted2

\* generateMnemonic, with 24 words chosen
GenerateMnemonic ==
  /\ app = 1
  /\ BagCardinality(pending) < MaxPending
  /\ \E m \in ValidMnemonics :
       /\ mnemonic' = m
       /\ pending' = Add(pending, TimerTask(m))
  /\ statusKind' = "success"
  /\ HandlerRender
  /\ UNCHANGED <<app, index, pubkey, balance, networkRpc, status,
                 keypairRef, connRef, balanceOf>>
  /\ UNCHANGED dvars

\* the callback of the timer generateMnemonic set: deriveAccount(m, 0),
\* whatever the index field holds
TimerFired ==
  /\ app = 1
  /\ \E t \in BagToSet(pending) :
       /\ t.kind = "timer"
       /\ deriveAccount(Remove(pending, t), t.words, Small(0))
  /\ UNCHANGED <<app, mnemonic, index, pubkey, balance, networkRpc, status,
                 keypairRef, connRef, balanceOf, rendered>>
  /\ UNCHANGED dvars

\* The fields recipient, amount, showMnemonic, showImportModal, importText,
\* importError and wordCount are state of the component that no variable of
\* this module holds: the texts are drawn where a handler reads them. A
\* handler that sets one of them to a value it does not hold makes the
\* component render, and the steps below are those renders; set to the
\* value it holds, a field brings no commit, and the state stays as it is.

\* the word count buttons of lines 236 and 242: setWordCount, with the count
\* that is not the one held
SetWordCount ==
  /\ app = 1
  /\ HandlerRender
  /\ UNCHANGED <<app, mnemonic, index, pubkey, balance, networkRpc,
                 statusKind, status, keypairRef, connRef, pending,
                 balanceOf>>
  /\ UNCHANGED dvars

\* the toggle of line 264, there once the mnemonic has words:
\* setShowMnemonic(!showMnemonic)
ToggleShowMnemonic ==
  /\ app = 1
  /\ mnemonic # <<>>
  /\ HandlerRender
  /\ UNCHANGED <<app, mnemonic, index, pubkey, balance, networkRpc,
                 statusKind, status, keypairRef, connRef, pending,
                 balanceOf>>
  /\ UNCHANGED dvars

\* openImportModal: the dialog opens, its text and its error emptied
OpenImportModal ==
  /\ app = 1
  /\ HandlerRender
  /\ UNCHANGED <<app, mnemonic, index, pubkey, balance, networkRpc,
                 statusKind, status, keypairRef, connRef, pending,
                 balanceOf>>
  /\ UNCHANGED dvars

\* the textarea of the dialog, line 374: setImportText of the text typed
\* and setImportError('')
ImportTextChange ==
  /\ app = 1
  /\ HandlerRender
  /\ UNCHANGED <<app, mnemonic, index, pubkey, balance, networkRpc,
                 statusKind, status, keypairRef, connRef, pending,
                 balanceOf>>
  /\ UNCHANGED dvars

\* the overlay of line 369 and the Cancel button of line 380:
\* setShowImportModal(false), the dialog being open
CloseImportModal ==
  /\ app = 1
  /\ HandlerRender
  /\ UNCHANGED <<app, mnemonic, index, pubkey, balance, networkRpc,
                 statusKind, status, keypairRef, connRef, pending,
                 balanceOf>>
  /\ UNCHANGED dvars

\* confirmImport, with the text of the dialog trimmed: a text that is no
\* mnemonic sets the error of the dialog and nothing else
ConfirmImport ==
  /\ app = 1
  /\ \E trimmed \in ImportTexts :
       IF ~validateMnemonic(trimmed)
       THEN UNCHANGED <<mnemonic, statusKind, pending>>
       ELSE /\ BagCardinality(pending) < MaxPending
            /\ mnemonic' = trimmed
            /\ deriveAccount(pending, trimmed, index)
  /\ HandlerRender
  /\ UNCHANGED <<app, index, pubkey, balance, networkRpc, status,
                 keypairRef, connRef, balanceOf>>
  /\ UNCHANGED dvars

\* handleIndexChange
IndexChange ==
  /\ app = 1
  /\ BagCardinality(pending) < MaxPending
  /\ \E val \in IndexEdits : \E n \in {FlooredEdits[val]} :
       /\ index' = n
       /\ IF mnemonic # <<>> /\ validateMnemonic(mnemonic)
          THEN /\ deriveAccount(pending, mnemonic, n)
               /\ HandlerRender
               /\ UNCHANGED <<pubkey, balance, balanceOf>>
          ELSE /\ pubkey' = Null
               /\ balance' = Null
               /\ balanceOf' = Null
               /\ rendered' = [pubkey |-> Null, keypair |-> keypairRef # Null]
               /\ UNCHANGED <<statusKind, pending>>
  /\ UNCHANGED <<app, mnemonic, networkRpc, status, keypairRef, connRef>>
  /\ UNCHANGED dvars

\* the Derive button, disabled while there is no mnemonic
DeriveClick ==
  /\ app = 1
  /\ BagCardinality(pending) < MaxPending
  /\ mnemonic # <<>>
  /\ deriveAccount(pending, mnemonic, index)
  /\ HandlerRender
  /\ UNCHANGED <<app, mnemonic, index, pubkey, balance, networkRpc, status,
                 keypairRef, connRef, balanceOf>>
  /\ UNCHANGED dvars

\* deriveAccount after its await: from the settling of mnemonicToSeed through
\* derivePath, which runs to its end before anything else does, to the await
\* of fetchBalance, or the catch block
SeedDone ==
  /\ app = 1
  /\ \E t \in BagToSet(pending) :
       /\ t.kind = "seed"
       /\ \E d \in {Derived[<<impl, SEED_KEY, t.words, t.acctIndex>>]} :
            IF d.node.ok
            THEN /\ keypairRef' = d.kp
                 /\ pubkey' = toBase58(d.kp.publicKey)
                 /\ statusKind' = "success"
                 /\ fetchBalance(Remove(pending, t), connRef,
                                 toBase58(d.kp.publicKey))
            ELSE /\ statusKind' = "error"
                 /\ pending' = Remove(pending, t)
                 /\ UNCHANGED <<keypairRef, pubkey, balance, balanceOf>>
  /\ UNCHANGED <<app, mnemonic, index, networkRpc, status, connRef,
                 rendered>>
  /\ UNCHANGED dvars

\* the network select and the effect that follows the render, with the
\* pubkey of that render
NetworkChange ==
  /\ app = 1
  /\ \E net \in NetworkOptions :
       /\ net # networkRpc
       /\ networkRpc' = net
       /\ connRef' = Connection(net)
       /\ IF rendered.pubkey # Null
          THEN /\ BagCardinality(pending) < MaxPending
               /\ fetchBalance(pending, Connection(net), rendered.pubkey)
          ELSE UNCHANGED <<balance, pending, balanceOf>>
  /\ HandlerRender
  /\ UNCHANGED <<app, mnemonic, index, pubkey, statusKind, status,
                 keypairRef>>
  /\ UNCHANGED dvars

\* the Refresh button, disabled while the render has no pubkey
RefreshClick ==
  /\ app = 1
  /\ BagCardinality(pending) < MaxPending
  /\ rendered.pubkey # Null
  /\ fetchBalance(pending, connRef, rendered.pubkey)
  /\ HandlerRender
  /\ UNCHANGED <<app, mnemonic, index, pubkey, networkRpc, statusKind,
                 status, keypairRef, connRef>>
  /\ UNCHANGED dvars

\* fetchBalance after its await: getBalance resolved, or rejected
BalanceDone ==
  /\ app = 1
  /\ \E t \in BagToSet(pending) :
       /\ t.kind = "balance"
       /\ \/ \E bal \in Lamports :
               /\ balance' = FixedTexts[bal]
               /\ balanceOf' = [pub |-> t.pub,
                                endpoint |-> t.conn.rpcEndpoint]
          \/ /\ balance' = ErrorText
             /\ balanceOf' = Null
       /\ pending' = Remove(pending, t)
  /\ UNCHANGED <<app, mnemonic, index, pubkey, networkRpc, statusKind,
                 status, keypairRef, connRef, rendered>>
  /\ UNCHANGED dvars

\* a Copy button, shown beside the mnemonic and beside the pubkey once the
\* render has one: copyToClipboard up to its await, which sets no state
CopyClick ==
  /\ app = 1
  /\ BagCardinality(pending) < MaxPending
  /\ mnemonic # <<>> \/ rendered.pubkey # Null
  /\ pending' = Add(pending, CopyTask)
  /\ UNCHANGED <<app, mnemonic, index, pubkey, balance, networkRpc,
                 statusKind, status, keypairRef, connRef, balanceOf,
                 rendered>>
  /\ UNCHANGED dvars

\* copyToClipboard after its await: info(...) when writeText resolved, the
\* catch block when it was rejected
CopyDone ==
  /\ app = 1
  /\ \E t \in BagToSet(pending), resolved \in BOOLEAN :
       /\ t.kind = "copy"
       /\ statusKind' = IF resolved THEN "" ELSE "error"
       /\ pending' = Remove(pending, t)
  /\ UNCHANGED <<app, mnemonic, index, pubkey, balance, networkRpc, status,
                 keypairRef, connRef, balanceOf, rendered>>
  /\ UNCHANGED dvars

\* the Airdrop button, disabled while the render has no pubkey:
\* requestAirdrop up to its first await, with the pubkey of its closure
AirdropClick ==
  /\ app = 1
  /\ BagCardinality(pending) < MaxPending
  /\ rendered.pubkey # Null
  /\ statusKind' = "loading"
  /\ pending' = Add(pending, AirdropTask(rendered.pubkey, 1))
  /\ HandlerRender
  /\ UNCHANGED <<app, mnemonic, index, pubkey, balance, networkRpc, status,
                 keypairRef, connRef, balanceOf>>
  /\ UNCHANGED dvars

\* requestAirdrop after an await: a rejection goes to the catch block; after
\* devnetConn.requestAirdrop comes the await of confirmTransaction, after
\* that one success(...) and fetchBalance(pubkey), on connRef.current
AirdropStep ==
  /\ app = 1
  /\ \E t \in BagToSet(pending), resolved \in BOOLEAN :
       /\ t.kind = "airdrop"
       /\ IF ~resolved
          THEN /\ statusKind' = "error"
               /\ pending' = Remove(pending, t)
               /\ UNCHANGED <<balance, balanceOf>>
          ELSE IF t.stage = 1
          THEN /\ pending' = Add(Remove(pending, t), [t EXCEPT !.stage = 2])
               /\ UNCHANGED <<statusKind, balance, balanceOf>>
          ELSE /\ statusKind' = "success"
               /\ fetchBalance(Remove(pending, t), connRef, t.pub)
  /\ UNCHANGED <<app, mnemonic, index, pubkey, networkRpc, status,
                 keypairRef, connRef, rendered>>
  /\ UNCHANGED dvars

\* the recipient field of line 337: setRecipient of the text typed
RecipientChange ==
  /\ app = 1
  /\ HandlerRender
  /\ UNCHANGED <<app, mnemonic, index, pubkey, balance, networkRpc,
                 statusKind, status, keypairRef, connRef, pending,
                 balanceOf>>
  /\ UNCHANGED dvars

\* the amount field of line 345: setAmount of the text typed
AmountChange ==
  /\ app = 1
  /\ HandlerRender
  /\ UNCHANGED <<app, mnemonic, index, pubkey, balance, networkRpc,
                 statusKind, status, keypairRef, connRef, pending,
                 balanceOf>>
  /\ UNCHANGED dvars

\* the Send button, disabled while keypairRef.current was null at the
\* render: sendSol up to its first await, with the texts the recipient and
\* amount fields hold
SendClick ==
  /\ app = 1
  /\ rendered.keypair
  /\ \E f \in SendFields :
       IF \/ keypairRef = Null
          \/ f.recipient = [text |-> ""]
          \/ ~IsPublicKey(f.recipient)
          \/ ~PositiveAmounts[f.amount]
       THEN /\ statusKind' = "error"
            /\ UNCHANGED pending
       ELSE /\ BagCardinality(pending) < MaxPending
            /\ statusKind' = "loading"
            /\ pending' = Add(pending, SendTask(keypairRef, 1))
  /\ HandlerRender
  /\ UNCHANGED <<app, mnemonic, index, pubkey, balance, networkRpc, status,
                 keypairRef, connRef, balanceOf>>
  /\ UNCHANGED dvars

\* sendSol after an await: a rejection goes to the catch block; after
\* conn.sendTransaction come loading(...) and the await of
\* confirmTransaction, after that one success(...) and the fetchBalance of
\* the sender, on connRef.current
SendStep ==
  /\ app = 1
  /\ \E t \in BagToSet(pending), resolved \in BOOLEAN :
       /\ t.kind = "send"
       /\ IF ~resolved
          THEN /\ statusKind' = "error"
               /\ pending' = Remove(pending, t)
               /\ UNCHANGED <<balance, balanceOf>>
          ELSE IF t.stage = 1
          THEN /\ statusKind' = "loading"
               /\ pending' = Add(Remove(pending, t), [t EXCEPT !.stage = 2])
               /\ UNCHANGED <<balance, balanceOf>>
          ELSE /\ statusKind' = "success"
               /\ fetchBalance(Remove(pending, t), connRef,
                               toBase58(t.from.publicKey))
  /\ UNCHANGED <<app, mnemonic, index, pubkey, networkRpc, status,
                 keypairRef, connRef, rendered>>
  /\ UNCHANGED dvars

\* ------------------------------------------------------------------------
\* The component of line 412
\* ------------------------------------------------------------------------
\* deriveAccountFromMnemonic up to its await, rest being what else is
\* awaited
deriveAccountFromMnemonic(rest, mnemonicWords, acctIndex) ==
  IF ~validateMnemonic(mnemonicWords)
  THEN /\ status' = <<"Invalid mnemonic.">>
       /\ pending' = rest
  ELSE /\ status' = <<"Deriving account...">>
       /\ pending' = Add(rest, SeedTask(mnemonicWords, acctIndex))

\* fetchBalance of line 484 up to its await, c being connRef.current
fetchBalance2(rest, c, pub) ==
  /\ balance' = LoadingText
  /\ balanceOf' = Null
  /\ pending' = Add(rest, BalanceTask(c, pub))

\* generateMnemonic of line 435
GenerateMnemonic2 ==
  /\ app = 2
  /\ BagCardinality(pending) < MaxPending
  /\ \E m \in ValidMnemonics :
       /\ Len(m) = 24
       /\ mnemonic' = m
       /\ pending' = Add(pending, TimerTask(m))
  /\ status' =
       <<"Mnemonic generated \\u2014 make sure to copy it to a safe place.">>
  /\ HandlerRender
  /\ UNCHANGED <<app, index, pubkey, balance, networkRpc, statusKind,
                 keypairRef, connRef, balanceOf>>
  /\ UNCHANGED dvars

\* the callback of the timer of line 440: deriveAccountFromMnemonic(m, 0)
TimerFired2 ==
  /\ app = 2
  /\ \E t \in BagToSet(pending) :
       /\ t.kind = "timer"
       /\ deriveAccountFromMnemonic(Remove(pending, t), t.words, Small(0))
  /\ UNCHANGED <<app, mnemonic, index, pubkey, balance, networkRpc,
                 statusKind, keypairRef, connRef, balanceOf, rendered>>
  /\ UNCHANGED dvars

\* importMnemonic: prompt() gave a text whose trimmed words are valid; a
\* cancelled prompt, an empty text and an invalid one change nothing
ImportMnemonic ==
  /\ app = 2
  /\ BagCardinality(pending) < MaxPending
  /\ \E m \in ImportTexts :
       /\ m # <<>>
       /\ validateMnemonic(m)
       /\ mnemonic' = m
       /\ deriveAccountFromMnemonic(pending, m, index)
  /\ HandlerRender
  /\ UNCHANGED <<app, index, pubkey, balance, networkRpc, statusKind,
                 keypairRef, connRef, balanceOf>>
  /\ UNCHANGED dvars

\* handleIndexChange of line 497
IndexChange2 ==
  /\ app = 2
  /\ BagCardinality(pending) < MaxPending
  /\ \E val \in IndexEdits : \E n \in {FlooredEdits[val]} :
       /\ index' = n
       /\ IF mnemonic # <<>> /\ validateMnemonic(mnemonic)
          THEN /\ deriveAccountFromMnemonic(pending, mnemonic, n)
               /\ HandlerRender
               /\ UNCHANGED <<pubkey, balance, balanceOf>>
          ELSE /\ pubkey' = Null
               /\ balance' = Null
               /\ balanceOf' = Null
               /\ rendered' = [pubkey |-> Null, keypair |-> keypairRef # Null]
               /\ UNCHANGED <<status, pending>>
  /\ UNCHANGED <<app, mnemonic, networkRpc, statusKind, keypairRef, connRef>>
  /\ UNCHANGED dvars

\* the Derive button of line 630, never disabled
DeriveClick2 ==
  /\ app = 2
  /\ validateMnemonic(mnemonic) => BagCardinality(pending) < MaxPending
  /\ deriveAccountFromMnemonic(pending, mnemonic, index)
  /\ HandlerRender
  /\ UNCHANGED <<app, mnemonic, index, pubkey, balance, networkRpc,
                 statusKind, keypairRef, connRef, balanceOf>>
  /\ UNCHANGED dvars

\* deriveAccountFromMnemonic after its await, to the await of fetchBalance
\* or the catch block
SeedDone2 ==
  /\ app = 2
  /\ \E t \in BagToSet(pending) :
       /\ t.kind = "seed"
       /\ \E d \in {Derived[<<impl, SEED_KEY, t.words, t.acctIndex>>]} :
            IF d.node.ok
            THEN /\ keypairRef' = d.kp
                 /\ pubkey' = toBase58(d.kp.publicKey)
                 /\ status' = <<"Derived account index ">>
                                \o IndexTexts[t.acctIndex]
                 /\ fetchBalance2(Remove(pending, t), connRef,
                                  toBase58(d.kp.publicKey))
            ELSE /\ status' = <<"Derivation failed: ", d.node.message>>
                                \o d.node.seg
                 /\ pending' = Remove(pending, t)
                 /\ UNCHANGED <<keypairRef, pubkey, balance, balanceOf>>
  /\ UNCHANGED <<app, mnemonic, index, networkRpc, statusKind, connRef,
                 rendered>>
  /\ UNCHANGED dvars

\* the network select of line 656 and the effect of line 426 that follows
\* the render, with the pubkey of that render
NetworkChange2 ==
  /\ app = 2
  /\ \E net \in NetworkOptions :
       /\ net # networkRpc
       /\ networkRpc' = net
       /\ connRef' = Connection(net)
       /\ IF rendered.pubkey # Null
          THEN /\ BagCardinality(pending) < MaxPending
               /\ fetchBalance2(pending, Connection(net), rendered.pubkey)
          ELSE UNCHANGED <<balance, pending, balanceOf>>
  /\ HandlerRender
  /\ UNCHANGED <<app, mnemonic, index, pubkey, statusKind, status,
                 keypairRef>>
  /\ UNCHANGED dvars

\* the Refresh button of line 646, disabled while the render has no pubkey
RefreshClick2 ==
  /\ app = 2
  /\ BagCardinality(pending) < MaxPending
  /\ rendered.pubkey # Null
  /\ fetchBalance2(pending, connRef, rendered.pubkey)
  /\ HandlerRender
  /\ UNCHANGED <<app, mnemonic, index, pubkey, networkRpc, statusKind,
                 status, keypairRef, connRef>>
  /\ UNCHANGED dvars

\* fetchBalance of line 484 after its await: getBalance resolved, or
\* rejected
BalanceDone2 ==
  /\ app = 2
  /\ \E t \in BagToSet(pending) :
       /\ t.kind = "balance"
       /\ \/ \E bal \in Lamports :
               /\ balance' = SolTexts[bal]
               /\ balanceOf' = [pub |-> t.pub,
                                endpoint |-> t.conn.rpcEndpoint]
          \/ /\ balance' = ErrorText
             /\ balanceOf' = Null
       /\ pending' = Remove(pending, t)
  /\ UNCHANGED <<app, mnemonic, index, pubkey, networkRpc, statusKind,
                 status, keypairRef, connRef, rendered>>
  /\ UNCHANGED dvars

\* the Copy buttons of lines 606 and 638: the first does nothing without a
\* mnemonic, the second is disabled while the render has no pubkey;
\* copyToClipboard up to its await, which sets no state
CopyClick2 ==
  /\ app = 2
  /\ BagCardinality(pending) < MaxPending
  /\ mnemonic # <<>> \/ rendered.pubkey # Null
  /\ pending' = Add(pending, CopyTask)
  /\ UNCHANGED <<app, mnemonic, index, pubkey, balance, networkRpc,
                 statusKind, status, keypairRef, connRef, balanceOf,
                 rendered>>
  /\ UNCHANGED dvars

\* copyToClipboard of line 558 after its await
CopyDone2 ==
  /\ app = 2
  /\ \E t \in BagToSet(pending), resolved \in BOOLEAN :
       /\ t.kind = "copy"
       /\ status' =
            IF resolved THEN <<"Copied to clipboard.">>
            ELSE <<"Copy failed \\u2014 permission denied or not supported.">>
       /\ pending' = Remove(pending, t)
  /\ UNCHANGED <<app, mnemonic, index, pubkey, balance, networkRpc,
                 statusKind, keypairRef, connRef, balanceOf, rendered>>
  /\ UNCHANGED dvars

\* the Airdrop button of line 647, disabled while the render has no pubkey
\* or the endpoint is not one of devnet: requestAirdrop of line 568 up to
\* its first await, with the pubkey of its closure
AirdropClick2 ==
  /\ app = 2
  /\ BagCardinality(pending) < MaxPending
  /\ rendered.pubkey # Null
  /\ includesDevnet(networkRpc)
  /\ status' = <<"Requesting airdrop (1 SOL)...">>
  /\ pending' = Add(pending, AirdropTask(rendered.pubkey, 1))
  /\ HandlerRender
  /\ UNCHANGED <<app, mnemonic, index, pubkey, balance, networkRpc,
                 statusKind, keypairRef, connRef, balanceOf>>
  /\ UNCHANGED dvars

\* requestAirdrop of line 568 after an await: a rejection goes to the catch
\* block; after c.requestAirdrop comes the await of confirmTransaction,
\* after that one the status and fetchBalance(pubkey), on connRef.current
AirdropStep2 ==
  /\ app = 2
  /\ \E t \in BagToSet(pending), resolved \in BOOLEAN :
       /\ t.kind = "airdrop"
       /\ IF ~resolved
          THEN /\ status' = <<"Airdrop failed: ", RejectionMessage>>
               /\ pending' = Remove(pending, t)
               /\ UNCHANGED <<balance, balanceOf>>
          ELSE IF t.stage = 1
          THEN /\ pending' = Add(Remove(pending, t), [t EXCEPT !.stage = 2])
               /\ UNCHANGED <<status, balance, balanceOf>>
          ELSE /\ status' = <<"Airdrop complete.">>
               /\ fetchBalance2(Remove(pending, t), connRef, t.pub)
  /\ UNCHANGED <<app, mnemonic, index, pubkey, networkRpc, statusKind,
                 keypairRef, connRef, rendered>>
  /\ UNCHANGED dvars

\* the recipient field of line 664: setRecipient of the text typed
RecipientChange2 ==
  /\ app = 2
  /\ HandlerRender
  /\ UNCHANGED <<app, mnemonic, index, pubkey, balance, networkRpc,
                 statusKind, status, keypairRef, connRef, pending,
                 balanceOf>>
  /\ UNCHANGED dvars

\* the amount field of line 668: setAmount of the text typed
AmountChange2 ==
  /\ app = 2
  /\ HandlerRender
  /\ UNCHANGED <<app, mnemonic, index, pubkey, balance, networkRpc,
                 statusKind, status, keypairRef, connRef, pending,
                 balanceOf>>
  /\ UNCHANGED dvars

\* the Send button of line 672, never disabled: sendSol of line 509 up to
\* its first await, with the texts the recipient and amount fields hold
SendClick2 ==
  /\ app = 2
  /\ \E f \in SendFields :
       IF keypairRef = Null
       THEN /\ status' = <<"No derived keypair available.">>
            /\ UNCHANGED pending
       ELSE IF f.recipient = [text |-> ""]
       THEN /\ status' = <<"Recipient required.">>
            /\ UNCHANGED pending
       ELSE IF ~IsPublicKey(f.recipient)
       THEN /\ status' = <<"Invalid recipient public key.">>
            /\ UNCHANGED pending
       ELSE IF ~PositiveAmounts[f.amount]
       THEN /\ status' = <<"Amount must be > 0.">>
            /\ UNCHANGED pending
       ELSE /\ BagCardinality(pending) < MaxPending
            /\ status' = <<"Creating transaction...">>
            /\ pending' = Add(pending, SendTask(keypairRef, 1))
  /\ HandlerRender
  /\ UNCHANGED <<app, mnemonic, index, pubkey, balance, networkRpc,
                 statusKind, keypairRef, connRef, balanceOf>>
  /\ UNCHANGED dvars

\* sendSol of line 509 after an await: a rejection goes to the catch block;
\* after connection.sendTransaction come the status with the signature and
\* the await of confirmTransaction, after that one the status and the
\* fetchBalance of the sender, on connRef.current
SendStep2 ==
  /\ app = 2
  /\ \E t \in BagToSet(pending), resolved \in BOOLEAN :
       /\ t.kind = "send"
       /\ IF ~resolved
          THEN /\ status' = <<"Send failed: ", RejectionMessage>>
               /\ pending' = Remove(pending, t)
               /\ UNCHANGED <<balance, balanceOf>>
          ELSE IF t.stage = 1
          THEN /\ status' = <<"Transaction sent. Signature: ", Signature>>
               /\ pending' = Add(Remove(pending, t), [t EXCEPT !.stage = 2])
               /\ UNCHANGED <<balance, balanceOf>>
          ELSE /\ status' = <<"Confirmed. Signature: ", Signature>>
               /\ fetchBalance2(Remove(pending, t), connRef,
                                toBase58(t.from.publicKey))
  /\ UNCHANGED <<app, mnemonic, index, pubkey, networkRpc, statusKind,
                 keypairRef, connRef, rendered>>
  /\ UNCHANGED dvars

NextWallet ==
  \/ GenerateMnemonic
  \/ TimerFired
  \/ DeriveClick
  \/ ConfirmImport
  \/ IndexChange
  \/ SeedDone
  \/ SetWordCount
  \/ ToggleShowMnemonic
  \/ OpenImportModal
  \/ ImportTextChange
  \/ CloseImportModal
  \/ RecipientChange
  \/ AmountChange
  \/ Render
  \/ NetworkChange
  \/ RefreshClick
  \/ BalanceDone
  \/ CopyClick
  \/ CopyDone
  \/ AirdropClick
  \/ AirdropStep
  \/ SendClick
  \/ SendStep
  \/ GenerateMnemonic2
  \/ TimerFired2
  \/ DeriveClick2
  \/ ImportMnemonic
  \/ IndexChange2
  \/ SeedDone2
  \/ RecipientChange2
  \/ AmountChange2
  \/ NetworkChange2
  \/ RefreshClick2
  \/ BalanceDone2
  \/ CopyClick2
  \/ CopyDone2
  \/ AirdropClick2
  \/ AirdropStep2
  \/ SendClick2
  \/ SendStep2

SpecWallet == InitWallet /\ [][NextWallet]_vars

\* ------------------------------------------------------------------------
\* Vocabulary of the properties, independent of the parser above
\* ------------------------------------------------------------------------
SlashPos(p) == {k \in 1..Len(p) : p[k] = "/"}

\* the number of segments after the root
SegCount(p) == Cardinality(SlashPos(p))

NthSlash(p, j) ==
  CHOOSE k \in SlashPos(p) : Cardinality({m \in SlashPos(p) : m < k}) = j - 1

\* the text of segment j (1 <= j <= SegCount(p))
SegAt(p, j) ==
  LET a == NthSlash(p, j)
      b == IF j < SegCount(p) THEN NthSlash(p, j + 1) ELSE Len(p) + 1
  IN  SubSeq(p, a + 1, b - 1)

\* the path without its last segment and the slash before it
Parent(p) == SubSeq(p, 1, NthSlash(p, SegCount(p)) - 1)

HasSuffix(seg) == seg # <<>> /\ seg[Len(seg)] \in {"'", "h"}

\* the segment once one optional trailing ' or h is taken off
Body(seg) == IF HasSuffix(seg) THEN SubSeq(seg, 1, Len(seg) - 1) ELSE seg

DigitChars == {"0", "1", "2", "3", "4", "5", "6", "7", "8", "9"}

\* a non-negative base-10 integer: one digit or more and nothing else
IsDecimal(z) == z # <<>> /\ \A k \in 1..Len(z) : z[k] \in DigitChars

INT31MAX == <<"2", "1", "4", "7", "4", "8", "3", "6", "4", "7">>

\* z is a decimal below 2^31 (a longer spelling with leading zeros is left out)
Below2p31(z) ==
  /\ IsDecimal(z)
  /\ \/ Len(z) < 10
     \/ /\ Len(z) = 10
        /\ \/ z = INT31MAX
           \/ \E k \in 1..10 :
                /\ SubSeq(z, 1, k - 1) = SubSeq(INT31MAX, 1, k - 1)
                /\ \E d \in DigitChars, e \in DigitChars :
                     /\ z[k] = d
                     /\ INT31MAX[k] = e
                     /\ \E a \in 1..10, b \in 1..10 :
                          Digits[a] = d /\ Digits[b] = e /\ a < b

\* the value of a decimal below 2^31
RECURSIVE Dec(_)
Dec(z) ==
  IF z = <<>> THEN 0
  ELSE 10 * Dec(SubSeq(z, 1, Len(z) - 1))
       + (CHOOSE d \in 0..9 : Digits[d + 1] = z[Len(z)])

\* n + 0x80000000 for 0 <= n < 2^31
Hardened(n) == Num(FALSE, 32768 + (n \div 65536), n % 65536)

BeginsWithM(p) == p # <<>> /\ p[1] = "m"

\* the four bytes of a uint32, most significant first
BigEndian4(x) == <<x.hi \div 256, x.hi % 256, x.lo \div 256, x.lo % 256>>

\* ------------------------------------------------------------------------
\* Properties
\* ------------------------------------------------------------------------

\* C1: derivePath(seed, "m") returns the halves of the HMAC-SHA512 keyed with
\* the text "ed25519 seed" over the message seed.
C1_MasterPairKeyedBySeedText ==
  (pc = "done" /\ path = <<"m">>) =>
    LET d == hmac(sha512, Ed25519SeedText, seed)
    IN  /\ outcome.key = slice(d, 0, 32)
        /\ outcome.chainCode = slice(d, 32, 64)

\* C2: each child step computes HMAC-SHA512 keyed with the parent chainCode
\* over the 37 bytes 0x00, parent key, index big-endian; the child key is the
\* first half of the digest and the child chainCode the second half.
C2_ChildKeyedByChainCode ==
  [][(pc = "loop" /\ i <= Len(indices) /\ i' = i + 1) =>
       LET msg == Concat(Concat(<<Lit(<<0>>)>>, key),
                         <<Lit(BigEndian4(indices[i]))>>)
           d == hmac(sha512, chainCode, msg)
       IN  /\ byteLength(msg) = 37
           /\ key' = slice(d, 0, 32)
           /\ chainCode' = slice(d, 32, 64)]_vars

\* C3: derivePath(seed, p + "/" + s) is the child step applied to
\* derivePath(seed, p) with the index of s.
C3_LeftFold ==
  (pc = "done" /\ SegCount(path) >= 1) =>
    LET par == derivePath(impl, SEED_KEY, seed, Parent(path))
        idx == segmentIndex(impl, SegAt(path, SegCount(path)))
        c == deriveChild(impl, par.key, par.chainCode, idx)
    IN  /\ par.ok
        /\ outcome.key = c.key
        /\ outcome.chainCode = c.chainCode

C3_Witness ==
  /\ pc = "done"
  /\ Len(indices) >= 2
  /\ indices[Len(indices)] # indices[Len(indices) - 1]

\* C4: an accepted path "m/s1/.../sk" parses to exactly k indices in path
\* order; a segment of decimal value n < 2^31, with or without ' or h, gives
\* n + 0x80000000; "m/44'/501'/a'/0'" gives [0x8000002C, 0x800001F5,
\* 0x80000000 + a, 0x80000000].
C4_ParsedIndices ==
  (pc = "loop") =>
    /\ Len(indices) = SegCount(path)
    /\ \A j \in 1..SegCount(path) :
         Below2p31(Body(SegAt(path, j))) =>
           indices[j] = Hardened(Dec(Body(SegAt(path, j))))
    /\ \A a \in 0..MaxAcct :
         path = accountPath(Small(a)) =>
           indices = <<Hardened(44), Hardened(501), Hardened(a), Hardened(0)>>

C4_Witness ==
  /\ pc = "loop"
  /\ path = accountPath(Small(MaxAcct))
  /\ indices[3] = Num(FALSE, 32768, MaxAcct)

\* C5: derivePath throws "Invalid path segment" whenever a segment after the
\* root, its optional suffix taken off, is not a non-negative base-10
\* integer; no key is returned then.
C5_BadSegmentThrows ==
  (/\ pc \notin {"master", "parse"}
   /\ BeginsWithM(path)
   /\ \E j \in 1..SegCount(path) : ~IsDecimal(Body(SegAt(path, j)))) =>
    /\ pc = "thrown"
    /\ outcome.message = SegmentMsg
    /\ ~outcome.ok

\* C6: a path that does not begin with "m" makes derivePath throw
\* 'Path must start with "m"', also when a segment of it does not parse, and
\* no key is returned.
C6_FormatErrorFirst ==
  (~BeginsWithM(path) /\ pc \notin {"master", "parse"}) =>
    /\ pc = "thrown"
    /\ outcome = Thrown(PathFormatMsg, <<>>)
    /\ outcome.key = <<>>
    /\ outcome.chainCode = <<>>

C6_Witness ==
  /\ pc = "thrown"
  /\ path = <<"4", "4", "'", "/", "a", "b", "c", "'">>
  /\ outcome.message = PathFormatMsg

\* C7: when derivePath throws the format error or the segment error, no
\* HMAC-SHA512 has been computed by the call, neither the master key nor a
\* child step.
C7_NoHashBeforeError ==
  pc = "thrown" => hmacLog = <<>>

\* the spellings n, n' and nh of the decimal that segment seg spells
Spellings(seg) ==
  {Body(seg), Body(seg) \o <<"'">>, Body(seg) \o <<"h">>}

\* the path p with its segment j replaced by alt
Respell(p, j, alt) ==
  LET a == NthSlash(p, j)
      b == IF j < SegCount(p) THEN NthSlash(p, j + 1) ELSE Len(p) + 1
  IN  SubSeq(p, 1, a) \o alt \o SubSeq(p, b, Len(p))

\* C8: a segment n, n' or nh with n < 2^31 parses to n + 0x80000000, and
\* replacing a segment of a path by another of its spellings leaves the
\* derived key and chainCode unchanged.
C8_HardeningNormalization ==
  (pc = "done") =>
    \A j \in 1..SegCount(path) :
      Below2p31(Body(SegAt(path, j))) =>
        /\ indices[j] = Hardened(Dec(Body(SegAt(path, j))))
        /\ \A alt \in Spellings(SegAt(path, j)) :
             derivePath(impl, SEED_KEY, seed, Respell(path, j, alt)) = outcome

C8_Witness ==
  /\ pc = "done"
  /\ path = <<"m", "/", "0", "/", "4", "4", "'">>
  /\ outcome.ok

\* C9: every index parsePath returns, and so every index that reaches the
\* child derivation step, is an unsigned 32-bit integer with its top bit
\* set: a finite number that is not negative, with nothing above bit 31
\* (top is empty) and bit 31 set (hi is 2^15 at least), whatever the value
\* of the segment, negative, 2^31 and more or 2^32 and more.
C9_IndexRange ==
  \A j \in 1..Len(indices) :
    /\ ~indices[j].nan
    /\ ~indices[j].inf
    /\ ~indices[j].neg
    /\ indices[j].top = <<>>
    /\ indices[j].hi \in 32768..65535
    /\ indices[j].lo \in 0..65535

\* a negative segment and one above 2^32 have been parsed
C9_Witness ==
  /\ pc = "loop"
  /\ path = <<"m", "/", "-", "5", "/",
              "4", "2", "9", "4", "9", "6", "7", "2", "9", "7", "'">>
  /\ indices = <<Num(FALSE, 65535, 65531), Num(FALSE, 32768, 1)>>

\* C10: two calls with the same seed and path have the same outcome, whatever
\* was called between them; a call writes neither the module-level buffer nor
\* the caller's seed.
C10_Pure ==
  /\ \A a \in 1..Len(calls), b \in 1..Len(calls) :
       (calls[a].seed = calls[b].seed /\ calls[a].path = calls[b].path) =>
         calls[a].outcome = calls[b].outcome
  /\ SEED_KEY = Ed25519SeedText
  /\ seed = seedIn

\* the same call made twice with a failed call of another seed in between
C10_Witness ==
  /\ Len(calls) = 3
  /\ calls[1].seed = calls[3].seed
  /\ calls[1].path = calls[3].path
  /\ calls[1].outcome.ok
  /\ calls[2].seed # calls[1].seed
  /\ ~calls[2].outcome.ok

\* C11: for every seed and every accepted path, key and chainCode are 32 bytes
\* each at the master pair, after every child step and in the value
\* returned, and the buffer a child step builds is 37 bytes.
C11_FixedWidth ==
  /\ pc \in {"parse", "loop", "done"} =>
       byteLength(key) = 32 /\ byteLength(chainCode) = 32
  /\ pc = "done" =>
       byteLength(outcome.key) = 32 /\ byteLength(outcome.chainCode) = 32
  /\ (pc = "loop" /\ i <= Len(indices)) =>
       byteLength(deriveChild(impl, key, chainCode, indices[i]).buf) = 37

\* the empty seed derived two levels down
C11_Witness ==
  /\ pc = "done"
  /\ seed = <<>>
  /\ Len(indices) = 2
  /\ Len(hmacLog) = 3
  /\ byteLength(outcome.key) = 32

\* SLIP-10 for ed25519, the algorithm the published vectors are values of:
\* the master pair is HMAC-SHA512(key = "ed25519 seed", data = seed) and the
\* child of (k, c) at the hardened index x is
\* HMAC-SHA512(key = c, data = 0x00 || k || ser32(x)), each split in halves
Slip10Master(s) ==
  LET d == hmac(sha512, Ed25519SeedText, s)
  IN  [key |-> slice(d, 0, 32), chainCode |-> slice(d, 32, 64)]

Slip10Child(par, x) ==
  LET data == Concat(Concat(<<Lit(<<0>>)>>, par.key), <<Lit(BigEndian4(x))>>)
      d == hmac(sha512, par.chainCode, data)
  IN  [key |-> slice(d, 0, 32), chainCode |-> slice(d, 32, 64)]

\* the pair published for Vector1Seed and the chain p of VectorPaths
Published(p) ==
  IF p = <<"m">> THEN Slip10Master(Vector1Seed)
  ELSE IF p = <<"m", "/", "0", "'">>
       THEN Slip10Child(Slip10Master(Vector1Seed), Hardened(0))
       ELSE Slip10Child(Slip10Child(Slip10Master(Vector1Seed), Hardened(0)),
                        Hardened(1))

\* C12: for the seed and the chains of the published SLIP-10 ed25519 vector,
\* derivePath returns the published key and chain code.
C12_PublishedVectors ==
  (pc = "done" /\ seed = Vector1Seed /\ path \in VectorPaths) =>
    /\ outcome.key = Published(path).key
    /\ outcome.chainCode = Published(path).chainCode

\* the text of a path before its first slash
FirstSegment(p) ==
  IF SlashPos(p) = {} THEN p ELSE SubSeq(p, 1, NthSlash(p, 1) - 1)

\* C13: a path is accepted only when its first segment is exactly "m"; a
\* first segment that only begins with "m" makes derivePath throw the format
\* error.
C13_RootSegmentExact ==
  (pc \notin {"master", "parse"} /\ FirstSegment(path) # <<"m">>) =>
    /\ pc = "thrown"
    /\ outcome.message = PathFormatMsg

OtherImpl(im) == IF im = "ts" THEN "js" ELSE "ts"

\* C14: ed25519Slip10.ts and ed25519Slip10.js agree on every seed and path:
\* the same error or the same key and chainCode; the two suffix strips give
\* the same index for every segment, and setUint32(33, index, false) writes
\* the bytes the shifts and masks write.
C14_Equivalent ==
  /\ pc \in {"done", "thrown"} =>
       outcome = derivePath(OtherImpl(impl), SEED_KEY, seed, path)
  /\ \A j \in 1..SegCount(path) :
       segmentIndex_ts(SegAt(path, j)) = segmentIndex_js(SegAt(path, j))
  /\ (pc = "loop" /\ i <= Len(indices)) =>
       deriveChild_ts(key, chainCode, indices[i])
         = deriveChild_js(key, chainCode, indices[i])

\* the .js has derived a path whose indices have four different bytes
C14_Witness ==
  /\ pc = "done"
  /\ impl = "js"
  /\ outcome.ok
  /\ indices = <<Num(FALSE, 65535, 65531), Num(FALSE, 32768, 1)>>

\* decimals of 2^31 and more, below 2^53, each with its residue modulo 2^31
\* as a number and as a decimal
Residues ==
  {[big |-> <<"2", "1", "4", "7", "4", "8", "3", "6", "4", "8">>,
    n |-> 0, small |-> <<"0">>],
   [big |-> <<"2", "1", "4", "7", "4", "8", "3", "6", "5", "1">>,
    n |-> 3, small |-> <<"3">>],
   [big |-> <<"4", "2", "9", "4", "9", "6", "7", "2", "9", "7">>,
    n |-> 1, small |-> <<"1">>],
   [big |-> <<"9", "0", "0", "7", "1", "9", "9", "2", "5", "4", "7", "4", "0",
              "9", "9", "1">>,
    n |-> 2147483647, small |-> INT31MAX]}

\* the same, and 2^53 - 1 with the decimal of 2^53 - 1 + 2^31, which is not
\* a double
ResiduesAbove ==
  Residues \cup
  {[big |-> <<"9", "0", "0", "7", "2", "0", "1", "4", "0", "2", "2", "2", "4",
              "6", "3", "9">>,
    n |-> 2147483647,
    small |-> <<"9", "0", "0", "7", "1", "9", "9", "2", "5", "4", "7", "4",
                "0", "9", "9", "1">>]}

\* x + 2^31 for a non-negative Number x
Plus2p31(x) ==
  IF x.inf THEN x
  ELSE FromRounded(FALSE, RoundDouble(BAddPow2(Mag(x), 31), FALSE))

\* x + 2^31 is below 2^53, for a non-negative Number x
WrapsBelow2p53(x) ==
  ~x.nan /\ ~x.inf /\ BBitLen(BAddPow2(Mag(x), 31)) <= 53

\* for each text typed in the index field: the index handleIndexChange
\* keeps, the path deriveAccount derives for it, whether the index + 2^31 is
\* below 2^53, and the index + 2^31
WrapCases ==
  [v \in IndexVals |->
     With(floorIndex(v), LAMBDA n :
       [index |-> n, path |-> accountPath(n), below |-> WrapsBelow2p53(n),
        up |-> Plus2p31(n)])] @@ <<>>

\* C15 as amended: a segment of value n < 2^53 is never refused for its size
\* and parses to 0x80000000 + (n mod 2^31); n and n + 2^31 derive the same
\* key when n + 2^31 is below 2^53; the wallet keeps an account index
\* i + 2^31 below 2^53 as typed and derives for it the account of index i.
C15_WrapAround ==
  /\ (/\ pc \notin {"master", "parse"}
      /\ BeginsWithM(path)
      /\ \A j \in 1..SegCount(path) : IsDecimal(Body(SegAt(path, j)))) =>
       pc # "thrown"
  /\ pc = "loop" =>
       \A j \in 1..SegCount(path), t \in Residues :
         Body(SegAt(path, j)) = t.big => indices[j] = Hardened(t.n)
  /\ pc = "done" =>
       \A j \in 1..SegCount(path), t \in Residues :
         SegAt(path, j) = t.small =>
           derivePath(impl, SEED_KEY, seed, Respell(path, j, t.big)) = outcome
  /\ pc = "done" =>
       \A v \in IndexVals :
         (path = WrapCases[v].path /\ WrapCases[v].below) =>
           /\ floorIndex(NumberToString(WrapCases[v].up)) = WrapCases[v].up
           /\ derivePath(impl, SEED_KEY, seed, accountPath(WrapCases[v].up))
                = outcome

\* C15 as claimed: the same with no bound on n + 2^31 and none on the
\* account index: segments n and n + 2^31 derive the same key for every
\* n < 2^53, and the wallet derives the same account for i and i + 2^31
\* whatever i is.
C15_WrapAroundUnbounded ==
  /\ pc = "done" =>
       \A j \in 1..SegCount(path), t \in ResiduesAbove :
         SegAt(path, j) = t.small =>
           derivePath(impl, SEED_KEY, seed, Respell(path, j, t.big)) = outcome
  /\ pc = "done" =>
       \A v \in IndexVals :
         path = WrapCases[v].path =>
           derivePath(impl, SEED_KEY, seed, accountPath(WrapCases[v].up))
             = outcome

\* the account of index 3 + 2^31 has been derived with the index of account 3
C15_Witness ==
  /\ pc = "done"
  /\ path = <<"m", "/", "4", "4", "'", "/", "5", "0", "1", "'", "/",
              "2", "1", "4", "7", "4", "8", "3", "6", "5", "1", "'",
              "/", "0", "'">>
  /\ indices[3] = Hardened(3)
  /\ outcome.ok

\* C16: in the wallet, once no request is pending, the keypair kept for
\* signing is the one whose public key is shown, and the balance shown is the
\* balance of that public key on the network selected: no late reply for an
\* earlier account or network has replaced the reply to a later request.
C16_LatestRequestWins ==
  (pending = EmptyBag /\ pubkey # Null) =>
    /\ keypairRef # Null
    /\ toBase58(keypairRef.publicKey) = pubkey
    /\ balance # ErrorText =>
         balanceOf = [pub |-> pubkey, endpoint |-> networkRpc]

====
